---------------------------- MODULE Spec2Model ----------------------------
(***************************************************************************)
(* tag-bot: the tag-resolution and safe-creation engine.                   *)
(*                                                                         *)
(* Strings are sequences of one-character strings, so that parsing,        *)
(* splitting and rendering are computed as the code computes them.         *)
(* A thrown ValidationError is a result record with ok = FALSE.            *)
(***************************************************************************)
EXTENDS Integers, Sequences, FiniteSets, TLC

VARIABLES
    \* a call of a pure function and what it returned
    fnCall, fnRet,
    \* one call of withRetry or withGitHubRetry: retryResult is what it
    \* returned, retryThrown what it threw
    retryFn, finalConfig, attempt, lastError, retryResult, retryThrown,
    \* observations of that call: invocations of the operation, the clock
    \* read by the last pass, the sleeps made, whether every invocation so
    \* far failed with a retryable error
    invocations, lastNow, waits, allRetryable,
    \* the runs of the action, the comments of each run's pull request and
    \* the tags of the repository
    runs, prComments, remoteTags

fnVars == <<fnCall, fnRet>>

retryVars ==
    <<retryFn, finalConfig, attempt, lastError, retryResult, retryThrown,
      invocations, lastNow, waits, allRetryable>>

runVars == <<runs, prComments, remoteTags>>

vars == <<fnVars, retryVars, runVars>>

(***************************************************************************)
(* Bounds of the model.                                                    *)
(***************************************************************************)
\* Largest version component of the inputs drawn for the pure functions.
MaxVer == 2

\* Largest maxAttempts of the retry configurations drawn.
MaxRetryAttempts == 3

\* Most tags of the repository when the runs start, and of the lists handed
\* to checkDuplicateTag and findNextAvailableVersion.
MaxTags == 2

(***************************************************************************)
(* JavaScript string primitives.                                           *)
(***************************************************************************)
DigitChars == <<"0", "1", "2", "3", "4", "5", "6", "7", "8", "9">>

IsDigit(c) == \E i \in 1..10 : DigitChars[i] = c

DigitVal(c) == (CHOOSE i \in 1..10 : DigitChars[i] = c) - 1

IsSpace(c) == c \in {" ", "\t", "\n"}

\* The value parseInt returns for a string without leading digits: a number
\* that is no integer the bounded inputs can denote (isNaN tests for it).
NaN == -1000000

\* String.prototype.startsWith
StartsWith(s, p) == Len(s) >= Len(p) /\ SubSeq(s, 1, Len(p)) = p

\* String.prototype.substring(n), n >= 0
Substring(s, n) == IF n >= Len(s) THEN <<>> ELSE SubSeq(s, n + 1, Len(s))

RECURSIVE TrimLeft(_)
TrimLeft(s) ==
    IF s # <<>> /\ IsSpace(Head(s)) THEN TrimLeft(Tail(s)) ELSE s

RECURSIVE TrimRight(_)
TrimRight(s) ==
    IF s # <<>> /\ IsSpace(s[Len(s)]) THEN TrimRight(SubSeq(s, 1, Len(s) - 1)) ELSE s

\* String.prototype.trim
Trim(s) == TrimRight(TrimLeft(s))

\* Index of the first occurrence of character c in s, 0 when there is none.
IndexOf(s, c) ==
    IF \E i \in 1..Len(s) : s[i] = c
    THEN CHOOSE i \in 1..Len(s) : s[i] = c /\ \A j \in 1..(i - 1) : s[j] # c
    ELSE 0

\* String.prototype.split(c) for a one-character separator.
RECURSIVE Split(_, _)
Split(s, c) ==
    LET i == IndexOf(s, c) IN
    IF i = 0 THEN <<s>>
    ELSE <<SubSeq(s, 1, i - 1)>> \o Split(SubSeq(s, i + 1, Len(s)), c)

\* The value of the longest prefix of decimal digits of s, acc so far.
RECURSIVE DigitsValue(_, _)
DigitsValue(s, acc) ==
    IF s # <<>> /\ IsDigit(Head(s))
    THEN DigitsValue(Tail(s), 10 * acc + DigitVal(Head(s)))
    ELSE acc

\* parseInt(s): leading white space is skipped, a sign is read, then the
\* longest prefix of digits; NaN when no digit is found there.
ParseInt(s) ==
    LET t == TrimLeft(s)
        neg == t # <<>> /\ Head(t) = "-"
        u == IF t # <<>> /\ Head(t) \in {"-", "+"} THEN Tail(t) ELSE t
    IN  IF u = <<>> \/ ~IsDigit(Head(u)) THEN NaN
        ELSE IF neg THEN 0 - DigitsValue(u, 0) ELSE DigitsValue(u, 0)

\* Number-to-string conversion of a non-negative integer.
RECURSIVE NatToStr(_)
NatToStr(n) ==
    IF n < 10 THEN <<DigitChars[n + 1]>>
    ELSE NatToStr(n \div 10) \o <<DigitChars[(n % 10) + 1]>>

\* String concatenation of a number ("" + n).
NumToStr(n) ==
    IF n = NaN THEN <<"N", "a", "N">>
    ELSE IF n < 0 THEN <<"-">> \o NatToStr(0 - n) ELSE NatToStr(n)

\* Every element of the sequence of strings is a non-empty run of digits.
AllDigits(s) == s # <<>> /\ \A i \in 1..Len(s) : IsDigit(s[i])

\* The regular expression /^\d+\.\d+\.\d+$/
MatchesTriple(s) ==
    LET parts == Split(s, ".") IN
    Len(parts) = 3 /\ \A i \in 1..3 : AllDigits(parts[i])

(***************************************************************************)
(* Results of calls that may throw.                                        *)
(***************************************************************************)
\* An optional value is a sequence of length at most one.
None == <<>>

Some(x) == <<x>>

\* A call that returned v, and a call that threw e.
Ok(v) == [ok |-> TRUE, val |-> <<v>>, err |-> <<>>]

Throw(e) == [ok |-> FALSE, val |-> <<>>, err |-> <<e>>]

ValidationError == "ValidationError"

(***************************************************************************)
(* Version                                                                 *)
(***************************************************************************)
\* new Version(major, minor, patch): each part a number, not NaN, >= 0.
NewVersion(newMajor, newMinor, newPatch) ==
    IF newMajor = NaN \/ newMinor = NaN \/ newPatch = NaN
    THEN Throw(ValidationError)
    ELSE IF newMajor < 0 \/ newMinor < 0 \/ newPatch < 0
    THEN Throw(ValidationError)
    ELSE Ok([major |-> newMajor, minor |-> newMinor, patch |-> newPatch])

\* Version.toString()
VersionToString(v) ==
    <<"v">> \o NumToStr(v.major) \o <<".">> \o NumToStr(v.minor)
        \o <<".">> \o NumToStr(v.patch)

(***************************************************************************)
(* PartToIncrement and generateNextTag                                     *)
(***************************************************************************)
PartToIncrement == {"Major", "Minor", "Patch"}

\* An increment that leaves the lower parts as they are.
IncrementNoReset(v, part) ==
    CASE part = "Major" -> Ok([v EXCEPT !.major = v.major + 1])
      [] part = "Minor" -> Ok([v EXCEPT !.minor = v.minor + 1])
      [] part = "Patch" -> Ok([v EXCEPT !.patch = v.patch + 1])
      [] OTHER -> Throw(ValidationError)

\* A switch that leaves the version as constructed.
IncrementNothing(v, part) ==
    IF part \in PartToIncrement THEN Ok(v) ELSE Throw(ValidationError)

\* The switch of generateNextTag on the freshly constructed Version.
Increment(v, part) ==
    CASE part = "Major" -> Ok([major |-> v.major + 1, minor |-> 0, patch |-> 0])
      [] part = "Minor" -> Ok([major |-> v.major, minor |-> v.minor + 1, patch |-> 0])
      [] part = "Patch" -> Ok([v EXCEPT !.patch = v.patch + 1])
      [] OTHER -> Throw(ValidationError)

generateNextTag(lastTag, partToIncrement) ==
    IF lastTag = <<>> THEN Throw(ValidationError)
    ELSE
      LET items == Split(lastTag, ".")
          previousTag == [i \in 1..Len(items) |-> ParseInt(items[i])]
      IN  IF \E i \in 1..Len(items) : previousTag[i] = NaN
          THEN Throw(ValidationError)
          ELSE IF Len(previousTag) # 3 THEN Throw(ValidationError)
          ELSE
            LET newTag == NewVersion(previousTag[1], previousTag[2], previousTag[3])
            IN  IF ~newTag.ok THEN newTag
                ELSE Increment(newTag.val[1], partToIncrement)

(***************************************************************************)
(* Tag, and the validators it uses.                                        *)
(***************************************************************************)
\* validateVersionString: throws unless the string, less one leading "v",
\* is three dot-separated runs of digits.
validateVersionString(version) ==
    IF version = <<>> THEN Throw(ValidationError)
    ELSE
      LET cleanVersion == IF StartsWith(version, <<"v">>)
                          THEN Substring(version, 1) ELSE version
      IN  IF ~MatchesTriple(cleanVersion) THEN Throw(ValidationError)
          ELSE
            LET parts == Split(cleanVersion, ".") IN
            IF \E i \in 1..Len(parts) :
                   ParseInt(parts[i]) = NaN \/ ParseInt(parts[i]) < 0
            THEN Throw(ValidationError)
            ELSE Ok(TRUE)

\* The numbers parseInt gives for the parts of a dotted string.
ParsedParts(versionString) ==
    LET parts == Split(versionString, ".")
    IN  [i \in 1..Len(parts) |-> ParseInt(parts[i])]

\* The version of the numbers parsed, after the tests on them.
VersionOfParts(versionArray) ==
    IF Len(versionArray) # 3 THEN Throw(ValidationError)
    ELSE IF \E i \in 1..3 : versionArray[i] = NaN THEN Throw(ValidationError)
    ELSE NewVersion(versionArray[1], versionArray[2], versionArray[3])

VersionFromStringKeepV(versionString) ==
    IF versionString = <<>> THEN Throw(ValidationError)
    ELSE IF ~validateVersionString(versionString).ok THEN Throw(ValidationError)
    ELSE VersionOfParts(ParsedParts(versionString))

\* Version.fromString(versionString)
VersionFromString(versionString) ==
    IF versionString = <<>> THEN Throw(ValidationError)
    ELSE IF ~validateVersionString(versionString).ok THEN Throw(ValidationError)
    ELSE VersionOfParts(ParsedParts(IF StartsWith(versionString, <<"v">>)
                                    THEN Substring(versionString, 1)
                                    ELSE versionString))

\* new Tag(tagName)
NewTag(tagName) ==
    IF tagName = <<>> THEN Throw(ValidationError)
    ELSE
      LET version == IF StartsWith(tagName, <<"v">>)
                     THEN Substring(tagName, 1) ELSE tagName
      IN  IF ~validateVersionString(version).ok THEN Throw(ValidationError)
          ELSE Ok([name |-> tagName, version |-> version])

\* Tag.toString()
TagToString(tag) == <<"v">> \o tag.version

\* validateCommentBody: a non-empty string that is not only white space.
validateCommentBody(body) ==
    IF body = <<>> THEN Throw(ValidationError)
    ELSE IF Len(Trim(body)) = 0 THEN Throw(ValidationError)
    ELSE Ok(TRUE)

\* The class that opens the pattern /[~^:?*[\\]@{}]/ of validateTagName: it
\* is closed by the first ] of the pattern, after the escaped backslash.
InvalidCharsClass == {"~", "^", ":", "?", "*", "[", "\\"}

\* What follows the class in the pattern: four literal characters.
InvalidCharsRest == <<"@", "{", "}", "]">>

\* invalidChars.test(tagName): a character of the class followed by the
\* four literal characters, somewhere in the name.
InvalidCharsTest(tagName) ==
    \E i \in 1..Len(tagName) :
      /\ tagName[i] \in InvalidCharsClass
      /\ i + Len(InvalidCharsRest) <= Len(tagName)
      /\ SubSeq(tagName, i + 1, i + Len(InvalidCharsRest)) = InvalidCharsRest

\* The characters of [\x00-\x1f\x7f] among the characters of the model.
ControlChars == {"\t", "\n", "\r", "\f"}

ControlCharsTest(tagName) == \E i \in 1..Len(tagName) : tagName[i] \in ControlChars

\* The pattern /[~^:?*[\\]/ of validateTagName in validation.ts: one
\* character of the class.
InvalidTagPatternTest(tagName) ==
    \E i \in 1..Len(tagName) : tagName[i] \in InvalidCharsClass

\* validateTagName of validation.ts: throws for an empty or white-space name
\* and for a name the pattern invalidTagPattern matches, else returns true.
validateTagNameBoolean(tagName) ==
    IF tagName = <<>> THEN Throw(ValidationError)
    ELSE IF Len(Trim(tagName)) = 0 THEN Throw(ValidationError)
    ELSE IF InvalidTagPatternTest(tagName) THEN Throw(ValidationError)
    ELSE Ok(TRUE)

\* validateTagName: throws for an empty or white-space name, for a name the
\* pattern invalidChars matches and for a name with a control character.
validateTagName(tagName) ==
    IF tagName = <<>> THEN Throw(ValidationError)
    ELSE IF Len(Trim(tagName)) = 0 THEN Throw(ValidationError)
    ELSE IF InvalidCharsTest(tagName) THEN Throw(ValidationError)
    ELSE IF ControlCharsTest(tagName) THEN Throw(ValidationError)
    ELSE Ok(TRUE)

(***************************************************************************)
(* Comment commands.                                                       *)
(***************************************************************************)
\* config.commentIdentifier
commentIdentifier == <<"/", "t", "a", "g", "-", "b", "o", "t">>

UpperChars ==
    <<"A", "B", "C", "D", "E", "F", "G", "H", "I", "J", "K", "L", "M",
      "N", "O", "P", "Q", "R", "S", "T", "U", "V", "W", "X", "Y", "Z">>

LowerChars ==
    <<"a", "b", "c", "d", "e", "f", "g", "h", "i", "j", "k", "l", "m",
      "n", "o", "p", "q", "r", "s", "t", "u", "v", "w", "x", "y", "z">>

\* String.prototype.toLowerCase and toUpperCase
ToLowerCase(s) ==
    [i \in 1..Len(s) |->
        IF \E k \in 1..Len(UpperChars) : UpperChars[k] = s[i]
        THEN LowerChars[CHOOSE k \in 1..Len(UpperChars) : UpperChars[k] = s[i]]
        ELSE s[i]]

ToUpperCase(s) ==
    [i \in 1..Len(s) |->
        IF \E k \in 1..Len(LowerChars) : LowerChars[k] = s[i]
        THEN UpperChars[CHOOSE k \in 1..Len(LowerChars) : LowerChars[k] = s[i]]
        ELSE s[i]]

\* The object the enum PartToIncrement compiles to, read with a string key:
\* the member names map to the members, and the numerals "0", "1", "2" map
\* back to the member names.  A member is written "Major", "Minor",
\* "Patch"; the string that is a member's name is written with quotes
\* inside, "'Major'", and is none of the members.  The key "__proto__"
\* reads the prototype of the object, which is not undefined either.
PartToIncrementLookup(key) ==
    CASE key = <<"M", "a", "j", "o", "r">> -> Some("Major")
      [] key = <<"M", "i", "n", "o", "r">> -> Some("Minor")
      [] key = <<"P", "a", "t", "c", "h">> -> Some("Patch")
      [] key = <<"0">> -> Some("'Major'")
      [] key = <<"1">> -> Some("'Minor'")
      [] key = <<"2">> -> Some("'Patch'")
      [] key = <<"_", "_", "p", "r", "o", "t", "o", "_", "_">> ->
           Some("Object.prototype")
      [] OTHER -> None

TagBotCommand == {"skip", "manual", "increment"}

TagBotCommandResult(command, incrementType, manualVersion, shouldSkip) ==
    [command |-> command, incrementType |-> incrementType,
     manualVersion |-> manualVersion, shouldSkip |-> shouldSkip]

\* A parseCommentBody that keeps the v of a manual version.
parseCommentBodyKeepV(body) ==
    IF ~validateCommentBody(body).ok THEN Throw(ValidationError)
    ELSE IF ~StartsWith(body, commentIdentifier) THEN Throw(ValidationError)
    ELSE
      LET commandPart == Trim(Substring(body, Len(commentIdentifier))) IN
      IF Len(commandPart) = 0 THEN Throw(ValidationError)
      ELSE IF ToLowerCase(commandPart) = <<"s", "k", "i", "p">>
      THEN Ok(TagBotCommandResult("skip", None, None, TRUE))
      ELSE IF StartsWith(commandPart, <<"v">>)
              /\ MatchesTriple(Substring(commandPart, 1))
      THEN Ok(TagBotCommandResult("manual", None, Some(commandPart), FALSE))
      ELSE IF MatchesTriple(commandPart)
      THEN Ok(TagBotCommandResult("manual", None, Some(commandPart), FALSE))
      ELSE
        LET incrementType == ToUpperCase(SubSeq(commandPart, 1, 1))
                                 \o ToLowerCase(Substring(commandPart, 1))
            partToIncrement == PartToIncrementLookup(incrementType)
        IN  IF partToIncrement = None THEN Throw(ValidationError)
            ELSE Ok(TagBotCommandResult("increment", partToIncrement,
                                        None, FALSE))

\* parseCommentBody(body)
parseCommentBody(body) ==
    IF ~validateCommentBody(body).ok THEN Throw(ValidationError)
    ELSE IF ~StartsWith(body, commentIdentifier) THEN Throw(ValidationError)
    ELSE
      LET commandPart == Trim(Substring(body, Len(commentIdentifier))) IN
      IF Len(commandPart) = 0 THEN Throw(ValidationError)
      ELSE IF ToLowerCase(commandPart) = <<"s", "k", "i", "p">>
      THEN Ok(TagBotCommandResult("skip", None, None, TRUE))
      ELSE IF StartsWith(commandPart, <<"v">>)
              /\ MatchesTriple(Substring(commandPart, 1))
      THEN Ok(TagBotCommandResult("manual", None,
                                  Some(Substring(commandPart, 1)), FALSE))
      ELSE IF MatchesTriple(commandPart)
      THEN Ok(TagBotCommandResult("manual", None, Some(commandPart), FALSE))
      ELSE
        LET incrementType == ToUpperCase(SubSeq(commandPart, 1, 1))
                                 \o ToLowerCase(Substring(commandPart, 1))
            partToIncrement == PartToIncrementLookup(incrementType)
        IN  IF partToIncrement = None THEN Throw(ValidationError)
            ELSE Ok(TagBotCommandResult("increment", partToIncrement,
                                        None, FALSE))

\* A createManualVersion that applies a patch increment to the version.
createManualVersionBumped(manualVersion) ==
    IF manualVersion = <<>> THEN Throw(ValidationError)
    ELSE IF ~MatchesTriple(manualVersion) THEN Throw(ValidationError)
    ELSE
      LET items == Split(manualVersion, ".")
          parts == [i \in 1..Len(items) |-> ParseInt(items[i])]
      IN  IF \E i \in 1..Len(items) : parts[i] = NaN \/ parts[i] < 0
          THEN Throw(ValidationError)
          ELSE IF Len(parts) # 3 THEN Throw(ValidationError)
          ELSE NewVersion(parts[1], parts[2], parts[3] + 1)

\* createManualVersion(manualVersion)
createManualVersion(manualVersion) ==
    IF manualVersion = <<>> THEN Throw(ValidationError)
    ELSE IF ~MatchesTriple(manualVersion) THEN Throw(ValidationError)
    ELSE
      LET items == Split(manualVersion, ".")
          parts == [i \in 1..Len(items) |-> ParseInt(items[i])]
      IN  IF \E i \in 1..Len(items) : parts[i] = NaN \/ parts[i] < 0
          THEN Throw(ValidationError)
          ELSE IF Len(parts) # 3 THEN Throw(ValidationError)
          ELSE NewVersion(parts[1], parts[2], parts[3])

(***************************************************************************)
(* Existing tags: the last tag, duplicates, the forward search.            *)
(* An element of a tag list is [name, sha], sha being commit.sha.          *)
(***************************************************************************)
\* The numeric segments compareVersions reads from a version string.
Segments(version) ==
    LET clean == IF StartsWith(version, <<"v">>)
                 THEN Substring(version, 1) ELSE version
        items == Split(clean, ".")
    IN  [i \in 1..Len(items) |-> ParseInt(items[i])]

\* compareVersions(a, b) of the library compare-versions on strings that
\* passed validateVersionString: -1, 0 or 1 by major, minor, patch.
compareVersions(a, b) ==
    LET x == Segments(a)
        y == Segments(b)
    IN  IF x[1] # y[1] THEN (IF x[1] < y[1] THEN -1 ELSE 1)
        ELSE IF x[2] # y[2] THEN (IF x[2] < y[2] THEN -1 ELSE 1)
        ELSE IF x[3] # y[3] THEN (IF x[3] < y[3] THEN -1 ELSE 1)
        ELSE 0

\* Array.prototype.sort with the comparator of determineLastTag: stable.
RECURSIVE InsertTag(_, _)
InsertTag(sorted, tag) ==
    IF sorted = <<>> THEN <<tag>>
    ELSE IF compareVersions(sorted[Len(sorted)].version, tag.version) <= 0
    THEN Append(sorted, tag)
    ELSE Append(InsertTag(SubSeq(sorted, 1, Len(sorted) - 1), tag),
                sorted[Len(sorted)])

RECURSIVE SortTags(_)
SortTags(list) ==
    IF list = <<>> THEN <<>>
    ELSE InsertTag(SortTags(SubSeq(list, 1, Len(list) - 1)), list[Len(list)])

\* A determineLastTag that does not sort: the last tag as listed.
determineLastTagUnsorted(tags) ==
    IF Len(tags) = 0 THEN Throw(ValidationError)
    ELSE IF \E i \in 1..Len(tags) : tags[i].name = <<>> THEN Throw(ValidationError)
    ELSE IF \E i \in 1..Len(tags) : ~NewTag(tags[i].name).ok
    THEN Throw(ValidationError)
    ELSE Ok(NewTag(tags[Len(tags)].name).val[1])

\* A determineLastTag that passes over the elements that are no valid tag.
determineLastTagSkipping(tags) ==
    LET valid == SelectSeq(tags, LAMBDA t : t.name # <<>> /\ NewTag(t.name).ok)
        Tags == SortTags([i \in 1..Len(valid) |-> NewTag(valid[i].name).val[1]])
    IN  IF Len(valid) = 0 THEN Throw(ValidationError)
        ELSE Ok(Tags[Len(Tags)])

\* determineLastTag(tags)
determineLastTag(tags) ==
    IF Len(tags) = 0 THEN Throw(ValidationError)
    ELSE IF \E i \in 1..Len(tags) : tags[i].name = <<>> THEN Throw(ValidationError)
    ELSE IF \E i \in 1..Len(tags) : ~NewTag(tags[i].name).ok
    THEN Throw(ValidationError)
    ELSE
      LET Tags == SortTags([i \in 1..Len(tags) |-> NewTag(tags[i].name).val[1]])
      IN  Ok(Tags[Len(Tags)])

\* Array.prototype.find: the first element satisfying Test, None for undefined.
Find(list, Test(_)) ==
    IF \E i \in 1..Len(list) : Test(list[i])
    THEN Some(list[CHOOSE i \in 1..Len(list) :
                     Test(list[i]) /\ \A j \in 1..(i - 1) : ~Test(list[j])])
    ELSE None

\* A name less one leading "v".
Clean(name) == IF StartsWith(name, <<"v">>) THEN Substring(name, 1) ELSE name

DuplicateTagInfo(exists, existingTag, conflictType) ==
    [exists |-> exists, existingTag |-> existingTag, conflictType |-> conflictType]

\* A duplicate check that knows exact matches only.
checkDuplicateTagExactOnly(tags, tagName) ==
    LET SameName(tag) == tag.name = tagName
        exactMatch == Find(tags, SameName)
    IN  IF exactMatch # None
        THEN DuplicateTagInfo(TRUE, exactMatch, "exact_match")
        ELSE DuplicateTagInfo(FALSE, None, "none")

\* A duplicate check that finds nothing.
checkDuplicateTagNever(tags, tagName) == DuplicateTagInfo(FALSE, None, "none")

\* checkDuplicateTag(tags, tagName)
checkDuplicateTag(tags, tagName) ==
    LET SameName(tag) == tag.name = tagName
        SameVersion(tag) == Clean(tag.name) = Clean(tagName)
        exactMatch == Find(tags, SameName)
        versionConflict == Find(tags, SameVersion)
    IN  IF exactMatch # None
        THEN DuplicateTagInfo(TRUE, exactMatch, "exact_match")
        ELSE IF versionConflict # None
        THEN DuplicateTagInfo(TRUE, versionConflict, "version_conflict")
        ELSE DuplicateTagInfo(FALSE, None, "none")

\* The default of findNextAvailableVersion's maxAttempts.
SearchMaxAttempts == 10

\* A loop that makes one pass more than maxAttempts.
RECURSIVE findNextLoopOneMore(_, _, _, _, _)
findNextLoopOneMore(currentVersion, incrementType, existingTags, att, maxAttempts) ==
    IF att > maxAttempts THEN Throw(ValidationError)
    ELSE
      LET nextVersion ==
            CASE incrementType = "Major" ->
                   NewVersion(currentVersion.major + 1, 0, 0)
              [] incrementType = "Minor" ->
                   NewVersion(currentVersion.major, currentVersion.minor + 1, 0)
              [] incrementType = "Patch" ->
                   NewVersion(currentVersion.major, currentVersion.minor,
                              currentVersion.patch + 1)
              [] OTHER -> Throw(ValidationError)
      IN  IF ~nextVersion.ok THEN nextVersion
          ELSE IF ~checkDuplicateTag(existingTags,
                                     VersionToString(nextVersion.val[1])).exists
          THEN nextVersion
          ELSE findNextLoopOneMore(nextVersion.val[1], incrementType, existingTags,
                            att + 1, maxAttempts)

\* The loop of findNextAvailableVersion from its pass number att on.
RECURSIVE findNextLoop(_, _, _, _, _)
findNextLoop(currentVersion, incrementType, existingTags, att, maxAttempts) ==
    IF att >= maxAttempts THEN Throw(ValidationError)
    ELSE
      LET nextVersion ==
            CASE incrementType = "Major" ->
                   NewVersion(currentVersion.major + 1, 0, 0)
              [] incrementType = "Minor" ->
                   NewVersion(currentVersion.major, currentVersion.minor + 1, 0)
              [] incrementType = "Patch" ->
                   NewVersion(currentVersion.major, currentVersion.minor,
                              currentVersion.patch + 1)
              [] OTHER -> Throw(ValidationError)
      IN  IF ~nextVersion.ok THEN nextVersion
          ELSE IF ~checkDuplicateTag(existingTags,
                                     VersionToString(nextVersion.val[1])).exists
          THEN nextVersion
          ELSE findNextLoop(nextVersion.val[1], incrementType, existingTags,
                            att + 1, maxAttempts)

\* findNextAvailableVersion(baseVersion, incrementType, existingTags,
\* maxAttempts)
findNextAvailableVersionUpTo(baseVersion, incrementType, existingTags, maxAttempts) ==
    LET currentVersion ==
          NewVersion(baseVersion.major, baseVersion.minor, baseVersion.patch)
    IN  IF ~currentVersion.ok THEN currentVersion
        ELSE findNextLoop(currentVersion.val[1], incrementType, existingTags,
                          0, maxAttempts)

\* findNextAvailableVersion(baseVersion, incrementType, existingTags), the
\* fourth argument left to its default.
findNextAvailableVersion(baseVersion, incrementType, existingTags) ==
    findNextAvailableVersionUpTo(baseVersion, incrementType, existingTags,
                                 SearchMaxAttempts)

\* The switch of generateSafeTagName's catch block on fallbackVersion: the
\* fields are assigned, the constructor's tests are not run again, and a
\* value outside the enumeration leaves the version as it is.
FallbackIncrement(v, incrementType) ==
    CASE incrementType = "Major" -> [major |-> v.major + 1, minor |-> 0, patch |-> 0]
      [] incrementType = "Minor" -> [major |-> v.major, minor |-> v.minor + 1, patch |-> 0]
      [] incrementType = "Patch" -> [v EXCEPT !.patch = v.patch + 1]
      [] OTHER -> v

\* generateSafeTagName(baseVersion, incrementType, existingTags, tagPrefix)
\* at the clock reading timestamp.
generateSafeTagName(baseVersion, incrementType, existingTags, tagPrefix, timestamp) ==
    LET safeVersion == findNextAvailableVersion(baseVersion, incrementType, existingTags)
    IN  IF safeVersion.ok
        THEN Ok(tagPrefix \o VersionToString(safeVersion.val[1]))
        ELSE
          LET fallbackVersion ==
                NewVersion(baseVersion.major, baseVersion.minor, baseVersion.patch)
          IN  IF ~fallbackVersion.ok THEN fallbackVersion
              ELSE Ok(tagPrefix
                        \o VersionToString(FallbackIncrement(fallbackVersion.val[1],
                                                             incrementType))
                        \o <<"-">> \o NatToStr(timestamp))

\* validateTagSafety(tags, proposedTag).safe, allowOverwrite being false.
validateTagSafety(tags, proposedTag) ==
    ~checkDuplicateTag(tags, proposedTag).exists

(***************************************************************************)
(* The steps of run() that compute: the scan of the comments and the       *)
(* resolution of the tag to create.                                        *)
(***************************************************************************)
\* The directive before any comment is read: minor increment.
DefaultDirectivePatch ==
    [partToIncrement |-> "Patch", shouldSkip |-> FALSE, manualVersion |-> None]

\* let partToIncrement = PartToIncrement.Minor, shouldSkip = false,
\* manualVersion undefined
DefaultDirective ==
    [partToIncrement |-> "Minor", shouldSkip |-> FALSE, manualVersion |-> None]

\* A scan step whose increment comments do not overwrite an earlier one.
ScanStepFirstIncrement(dir, body) ==
    IF body # <<>> /\ StartsWith(body, commentIdentifier)
    THEN
      LET commandResult == parseCommentBody(body) IN
      IF ~commandResult.ok THEN dir
      ELSE IF commandResult.val[1].shouldSkip
      THEN [dir EXCEPT !.shouldSkip = TRUE]
      ELSE IF commandResult.val[1].command = "manual"
              /\ commandResult.val[1].manualVersion # None
      THEN [dir EXCEPT !.manualVersion = commandResult.val[1].manualVersion]
      ELSE IF commandResult.val[1].command = "increment"
              /\ commandResult.val[1].incrementType # None
              /\ dir.partToIncrement = "Minor"
      THEN [dir EXCEPT !.partToIncrement = commandResult.val[1].incrementType[1]]
      ELSE dir
    ELSE dir

\* A scan step in which every command replaces the directive before it.
ScanStepLatestOnly(dir, body) ==
    IF body # <<>> /\ StartsWith(body, commentIdentifier)
    THEN
      LET commandResult == parseCommentBody(body) IN
      IF ~commandResult.ok THEN dir
      ELSE [partToIncrement |->
              IF commandResult.val[1].incrementType # None
              THEN commandResult.val[1].incrementType[1] ELSE "Minor",
            shouldSkip |-> commandResult.val[1].shouldSkip,
            manualVersion |-> commandResult.val[1].manualVersion]
    ELSE dir

\* The body of the forEach over the fetched comments, on a comment's body.
ScanStep(dir, body) ==
    IF body # <<>> /\ StartsWith(body, commentIdentifier)
    THEN
      LET commandResult == parseCommentBody(body) IN
      IF ~commandResult.ok THEN dir
      ELSE IF commandResult.val[1].shouldSkip
      THEN [dir EXCEPT !.shouldSkip = TRUE]
      ELSE IF commandResult.val[1].command = "manual"
              /\ commandResult.val[1].manualVersion # None
      THEN [dir EXCEPT !.manualVersion = commandResult.val[1].manualVersion]
      ELSE IF commandResult.val[1].command = "increment"
              /\ commandResult.val[1].incrementType # None
      THEN [dir EXCEPT !.partToIncrement = commandResult.val[1].incrementType[1]]
      ELSE dir
    ELSE dir

RECURSIVE ScanComments(_, _)
ScanComments(list, dir) ==
    IF list = <<>> THEN dir
    ELSE ScanComments(Tail(list), ScanStep(dir, Head(list)))

\* The test that the existing tag points at the commit of the run.
SameCommitNever(existingTag, sha) == FALSE

SameCommitAlways(existingTag, sha) == TRUE

SameCommit(existingTag, sha) == existingTag.sha = sha

\* The value of the output increment_type.
IncrementTypeOutput(dir) ==
    IF dir.manualVersion # None THEN "manual"
    ELSE CASE dir.partToIncrement = "Major" -> "major"
           [] dir.partToIncrement = "Minor" -> "minor"
           [] dir.partToIncrement = "Patch" -> "patch"
           [] OTHER -> "TypeError"

\* What the resolution decides: next is "create", "satisfied" or "failed",
\* failedAt names the step that failed, candidate is the name generated
\* first, tagName the name to create or the name found to exist.
Resolution(next, failedAt, lastTag, candidate, tagName, conflictType) ==
    [next |-> next, failedAt |-> failedAt, lastTag |-> lastTag,
     candidate |-> candidate, tagName |-> tagName,
     conflictType |-> conflictType]

\* The forward search of the version_conflict branch.
SafeAlternative(lastTag, partToIncrement, tags) ==
    LET parts == Split(lastTag.version, ".")
        baseVersion == NewVersion(ParseInt(parts[1]),
                                  IF Len(parts) > 1 THEN ParseInt(parts[2]) ELSE NaN,
                                  IF Len(parts) > 2 THEN ParseInt(parts[3]) ELSE NaN)
    IN  IF ~baseVersion.ok THEN baseVersion
        ELSE findNextAvailableVersion(baseVersion.val[1], partToIncrement, tags)

\* The final safety check, on the same list, and the decision to create.
FinalSafetyCheck(tags, lastTag, candidate, conflictType, safe) ==
    IF ~safe.ok
    THEN Resolution("failed", "resolve", Some(lastTag), Some(candidate),
                    None, conflictType)
    ELSE IF ~validateTagSafety(tags, VersionToString(safe.val[1]))
    THEN Resolution("failed", "safety", Some(lastTag), Some(candidate),
                    Some(VersionToString(safe.val[1])), conflictType)
    ELSE Resolution("create", "", Some(lastTag), Some(candidate),
                    Some(VersionToString(safe.val[1])), conflictType)

\* The branches on the duplicate check of the candidate newTag.
DuplicateTagPrevention(tags, dir, sha, lastTag, newTag, duplicateCheck) ==
    IF duplicateCheck.exists /\ duplicateCheck.conflictType = "exact_match"
    THEN IF SameCommit(duplicateCheck.existingTag[1], sha)
         THEN Resolution("satisfied", "", Some(lastTag),
                         Some(VersionToString(newTag)),
                         Some(VersionToString(newTag)), "exact_match")
         ELSE Resolution("failed", "conflict", Some(lastTag),
                         Some(VersionToString(newTag)), None, "exact_match")
    ELSE FinalSafetyCheck(tags, lastTag, VersionToString(newTag),
                          duplicateCheck.conflictType,
                          IF duplicateCheck.exists
                          THEN SafeAlternative(lastTag, dir.partToIncrement, tags)
                          ELSE Ok(newTag))

\* The new tag: the manual version, or the next tag after lastTag.
GenerateNewTag(tags, dir, sha, lastTag, newTag) ==
    IF ~newTag.ok
    THEN Resolution("failed", "generate", Some(lastTag), None, None, "none")
    ELSE DuplicateTagPrevention(tags, dir, sha, lastTag, newTag.val[1],
             checkDuplicateTag(tags, VersionToString(newTag.val[1])))

\* The last tag of the list, v0.0.0 for an empty list.
DetermineLastTag(tags, dir, sha, lastTag) ==
    IF ~lastTag.ok
    THEN Resolution("failed", "lastTag", None, None, None, "none")
    ELSE GenerateNewTag(tags, dir, sha, lastTag.val[1],
             IF dir.manualVersion # None
             THEN createManualVersion(dir.manualVersion[1])
             ELSE generateNextTag(lastTag.val[1].version, dir.partToIncrement))

\* run() from the tag list fetched to the call of createTag.
Resolve(tags, dir, sha) ==
    DetermineLastTag(tags, dir, sha,
        IF Len(tags) > 0 THEN determineLastTag(tags)
        ELSE NewTag(<<"v", "0", ".", "0", ".", "0">>))

(***************************************************************************)
(* Retry executor: errors, classification, delays.                         *)
(*                                                                         *)
(* An error is [name, code, status, msg, headers]: name is the name of its *)
(* class, code "" and status 0 stand                                       *)
(* for an absent property, msg is the phrase of the message the patterns   *)
(* look for, headers is None or the response headers                       *)
(* [remaining, reset, limit, retryAfter] with 0 for an absent rate-limit   *)
(* header and -1 for an absent retry-after.                                *)
(***************************************************************************)
DEFAULT_RETRY_CONFIG ==
    [maxAttempts |-> 3, baseDelay |-> 1000, maxDelay |-> 30000,
     backoffMultiplier |-> 2, jitter |-> TRUE]

RECURSIVE Pow(_, _)
Pow(b, e) == IF e = 0 THEN 1 ELSE b * Pow(b, e - 1)

Min(a, b) == IF a < b THEN a ELSE b

Max(a, b) == IF a > b THEN a ELSE b

\* The draws of Math.random() the model makes: 0, 1/2 and (just under) 1.
RandomDraws == {0, 1, 2}

\* calculateDelay(att, config) with Math.random() = random / 2.
calculateDelay(att, config, random) ==
    LET exponentialDelay == config.baseDelay * Pow(config.backoffMultiplier, att - 1)
        delay == Min(exponentialDelay, config.maxDelay)
        jitterRange == delay \div 4
        jitter == ((random - 1) * jitterRange) \div 2
    IN  IF config.jitter THEN Max(100, delay + jitter) ELSE delay

\* extractRateLimitInfo(headers): None for null.
extractRateLimitInfo(headers) ==
    IF headers.remaining >= 0 /\ headers.reset > 0 /\ headers.limit > 0
    THEN Some([remaining |-> headers.remaining, reset |-> headers.reset,
               limit |-> headers.limit])
    ELSE None

RetryableCodes == {"ECONNRESET", "ENOTFOUND", "ETIMEDOUT"}

RetryableStatusCodes == {408, 429, 500, 502, 503, 504}

RetryablePatterns ==
    {"rate limit exceeded", "temporary", "timeout", "network error",
     "connection reset", "service unavailable"}

\* The messages of the errors, as the words they are made of in lower case
\* (the patterns are tested without regard to case); a message not listed is
\* one word.
MessageWords ==
    ("rate limit exceeded" :> <<"rate", "limit", "exceeded">>)
    @@ ("rate limit" :> <<"rate", "limit">>)
    @@ ("API rate limit exceeded for user" :>
          <<"api", "rate", "limit", "exceeded", "for", "user">>)
    @@ ("network error" :> <<"network", "error">>)
    @@ ("connection reset" :> <<"connection", "reset">>)
    @@ ("service unavailable" :> <<"service", "unavailable">>)
    @@ ("Request Timeout" :> <<"request", "timeout">>)
    @@ ("not found" :> <<"not", "found">>)

WordsOf(message) ==
    IF message \in DOMAIN MessageWords THEN MessageWords[message]
    ELSE <<message>>

\* pattern.test(errorMessage): the words of the pattern stand in the message
\* one after the other.
PatternTest(pattern, errorMessage) ==
    LET pw == WordsOf(pattern)
        mw == WordsOf(errorMessage)
    IN  \E i \in 0..(Len(mw) - Len(pw)) :
            \A j \in 1..Len(pw) : mw[i + j] = pw[j]

\* A code that is a number is written in decimal; the codes of the network
\* layer are strings.
NumericCodes == ("503" :> 503) @@ ("404" :> 404)

\* error.status || error.code || 0
StatusOrCode(error) ==
    IF error.status # 0 THEN error.status
    ELSE IF error.code \in DOMAIN NumericCodes THEN NumericCodes[error.code]
    ELSE 0

\* A classification that reads the status only, not the code in its place.
isRetryableErrorStatusOnly(error) ==
    \/ error.code \in RetryableCodes
    \/ error.status \in RetryableStatusCodes
    \/ \E pattern \in RetryablePatterns : PatternTest(pattern, error.msg)

\* isRetryableError(error)
isRetryableError(error) ==
    \/ error.code \in RetryableCodes
    \/ StatusOrCode(error) \in RetryableStatusCodes
    \/ \E pattern \in RetryablePatterns : PatternTest(pattern, error.msg)

\* shouldWaitForRateLimit(rateLimitInfo, error) at clock now (seconds):
\* the wait in milliseconds, None for null.
shouldWaitForRateLimit(rateLimitInfo, error, now) ==
    IF rateLimitInfo = None THEN None
    ELSE IF rateLimitInfo[1].remaining <= 0
    THEN Some(Max(0, rateLimitInfo[1].reset - now) * 1000)
    ELSE IF error.status = 429
    THEN IF error.headers # None /\ error.headers[1].retryAfter # -1
         THEN Some(error.headers[1].retryAfter * 1000)
         ELSE Some(Max(0, rateLimitInfo[1].reset - now) * 1000)
    ELSE None

\* The RetryResult returned.
RetryResult(success, data, error, attempts) ==
    [success |-> success, data |-> data, error |-> error, attempts |-> attempts]

\* What one pass of the for loop does: ret is the RetryResult returned, None
\* when the loop goes on after sleeping for wait.
Returns(result) == [ret |-> Some(result), wait |-> None, thrown |-> None]

Sleeps(kind, ms) ==
    [ret |-> None, wait |-> Some([kind |-> kind, ms |-> ms]), thrown |-> None]

\* The pass leaves the function with an exception.
Throws(e) == [ret |-> None, wait |-> None, thrown |-> Some(e)]

\* The TypeError of reading a property of undefined.
TypeError == [name |-> "Error", code |-> "", status |-> 0, msg |-> "other", headers |-> None]

\* An operation that rejects with null or undefined: no error object.
RejectsWithNothing == [ok |-> FALSE, val |-> None, err |-> None]

\* lastError of the catch block: the error caught when it is an Error,
\* new Error(String(error)) otherwise.  An operation of withGitHubRetry
\* that resolved to undefined is caught with the TypeError of reading
\* result.headers.
Caught(outcome) ==
    IF outcome.ok THEN TypeError
    ELSE IF outcome.err = None
    THEN [name |-> "Error", code |-> "", status |-> 0, msg |-> "other",
          headers |-> None]
    ELSE outcome.err[1]

\* One pass of withRetry's loop: the try block and its catch.
withRetryPass(config, att, outcome, random) ==
    IF outcome.ok
    THEN Returns(RetryResult(TRUE, outcome.val, None, att))
    ELSE
      LET lastErr == Caught(outcome)
          isRetryable == isRetryableError(lastErr)
      IN  IF att = config.maxAttempts \/ ~isRetryable
          THEN Returns(RetryResult(FALSE, None, Some(lastErr), att))
          ELSE Sleeps("backoff", calculateDelay(att, config, random))

\* The rate-limit wait of withGitHubRetry's catch block: None for null.
rateLimitWait(error, now) ==
    IF error.headers # None
    THEN shouldWaitForRateLimit(extractRateLimitInfo(error.headers[1]), error, now)
    ELSE None

\* withGitHubRetry's catch block.
GitHubCatch(config, att, lastErr, random, now) ==
    LET isRetryable == isRetryableError(lastErr)
        rlw == rateLimitWait(lastErr, now)
    IN  IF rlw # None /\ rlw[1] > 0
        THEN Sleeps("ratelimit", rlw[1])
        ELSE IF att = config.maxAttempts \/ ~isRetryable
        THEN Returns(RetryResult(FALSE, None, Some(lastErr), att))
        ELSE Sleeps("backoff", calculateDelay(att, config, random))

\* One pass of withGitHubRetry's loop.  An operation that resolves to
\* undefined (val = None) makes result.headers throw inside the try block.
withGitHubRetryPass(config, att, outcome, random, now) ==
    IF outcome.ok /\ outcome.val # None
    THEN Returns(RetryResult(TRUE, outcome.val, None, att))
    ELSE IF outcome = RejectsWithNothing
    THEN Throws(TypeError)
    ELSE GitHubCatch(config, att, Caught(outcome), random, now)

\* A return after the for loop that reports the loop counter, one past the
\* budget.
AfterLoopCounter(config, lastErr) ==
    RetryResult(FALSE, None, Some(lastErr), config.maxAttempts + 1)

\* The return after the for loop, reached when the last pass slept.
AfterLoop(config, lastErr) ==
    RetryResult(FALSE, None, Some(lastErr), config.maxAttempts)


(***************************************************************************)
(* Specification of the retry executor: one call of withRetry or           *)
(* withGitHubRetry on an operation whose outcomes the environment picks.   *)
(***************************************************************************)
\* The overrides callers pass, on top of the defaults.
RetryOverrides ==
    {[baseDelay |-> 1000, maxDelay |-> 30000, backoffMultiplier |-> 2, jitter |-> TRUE],
     [baseDelay |-> 2000, maxDelay |-> 30000, backoffMultiplier |-> 2, jitter |-> TRUE],
     [baseDelay |-> 1000, maxDelay |-> 1500, backoffMultiplier |-> 2, jitter |-> FALSE],
     [baseDelay |-> 1000, maxDelay |-> 30000, backoffMultiplier |-> 1, jitter |-> FALSE],
     [baseDelay |-> 1000, maxDelay |-> 1500, backoffMultiplier |-> 2, jitter |-> TRUE],
     [baseDelay |-> 1000, maxDelay |-> 30000, backoffMultiplier |-> 1, jitter |-> TRUE]}

RetryConfigs ==
    {[maxAttempts |-> n, baseDelay |-> o.baseDelay, maxDelay |-> o.maxDelay,
      backoffMultiplier |-> o.backoffMultiplier, jitter |-> o.jitter] :
        n \in 1..MaxRetryAttempts, o \in RetryOverrides}

\* x-ratelimit-reset of the responses drawn, in seconds, and the clock
\* readings around it.
ResetAt == 100

Clock == {ResetAt - 1, ResetAt + 1}

Headers(remaining, retryAfter) ==
    Some([remaining |-> remaining, reset |-> ResetAt, limit |-> 60,
          retryAfter |-> retryAfter])

\* A response that carries retry-after and no rate-limit accounting.
RetryAfterOnly(retryAfter) ==
    Some([remaining |-> 0, reset |-> 0, limit |-> 0, retryAfter |-> retryAfter])

\* An error of the remote: name "Error".
HttpError(code, status, msg, headers) ==
    [name |-> "Error", code |-> code, status |-> status, msg |-> msg,
     headers |-> headers]

\* new ValidationError(message)
NewValidationError(msg) ==
    [name |-> "ValidationError", code |-> "", status |-> 0, msg |-> msg,
     headers |-> None]

\* The errors an operation is made to throw.
Errors ==
    {HttpError("", 503, "other", None),
     HttpError("", 404, "other", None),
     HttpError("", 0, "timeout", None),
     HttpError("ECONNRESET", 0, "other", None),
     HttpError("", 403, "rate limit exceeded", Headers(0, -1)),
     HttpError("", 404, "other", Headers(0, -1)),
     HttpError("", 429, "other", Headers(1, 2)),
     HttpError("", 422, "other", Headers(1, -1)),
     HttpError("", 429, "other", RetryAfterOnly(2)),
     NewValidationError("other"),
     NewValidationError("timeout")}

\* The outcomes of one invocation: a value, undefined, or an error.
Outcomes ==
    {Ok("data"), [ok |-> TRUE, val |-> None, err |-> None], RejectsWithNothing}
        \cup {Throw(e) : e \in Errors}

(***************************************************************************)
(* The runs of the action against one repository.                          *)
(*                                                                         *)
(* The state of a run is a record: pc is the remote call it awaits,        *)
(* attempt the pass of that call's retry loop, answer the answer to        *)
(* listTags on its way to the run, partToIncrement, shouldSkip and         *)
(* manualVersion the directive, commentsData and tagsData what the fetches *)
(* returned, resolution what was decided from tagsData, result how the     *)
(* run ended ("failed" after setFailed), failedAt the step that failed,    *)
(* error the error of the remote call that failed, issued the remote       *)
(* calls made, outputs the outputs set.                                    *)
(***************************************************************************)
Runs == {1, 2}

\* github.context.sha of each run.
ContextSha == <<"c1", "c2">>

IdleRun ==
    [pc |-> "idle", attempt |-> 0, answer |-> None,
     partToIncrement |-> "Minor",
     shouldSkip |-> FALSE, manualVersion |-> None, commentsData |-> None,
     tagsData |-> None, resolution |-> None, result |-> "running",
     failedAt |-> "", error |-> None, issued |-> {}, outputs |-> None,
     prDetails |-> None, statusResult |-> None, protection |-> ""]

StartingRun == [IdleRun EXCEPT !.pc = "start"]

RunIdle ==
    /\ runs = [r \in Runs |-> IdleRun]
    /\ prComments = [r \in Runs |-> <<>>]
    /\ remoteTags = <<>>

FnIdle == fnCall = None /\ fnRet = None

RetryIdle ==
    /\ retryFn = "none"
    /\ finalConfig = DEFAULT_RETRY_CONFIG
    /\ attempt = 0
    /\ lastError = None
    /\ retryResult = None
    /\ retryThrown = None
    /\ invocations = 0
    /\ lastNow = 0
    /\ waits = <<>>
    /\ allRetryable = TRUE

RetryInit ==
    /\ retryFn \in {"withRetry", "withGitHubRetry"}
    /\ finalConfig \in RetryConfigs
    /\ attempt = 1
    /\ lastError = None
    /\ retryResult = None
    /\ retryThrown = None
    /\ invocations = 0
    /\ lastNow = 0
    /\ waits = <<>>
    /\ allRetryable = TRUE
    /\ FnIdle
    /\ RunIdle

\* A sleep that leaves the attempt counter as it is after a rate-limit wait.
NextAttemptFreeRateLimit(n, wait) ==
    IF wait.kind = "ratelimit" THEN n ELSE n + 1

\* attempt++ of the for loop, reached after the sleep of a pass.
NextAttempt(n, wait) == n + 1

\* A whole call of withRetry or withGitHubRetry on an operation whose
\* invocation numbered n has the outcome script[n]: the for loop from
\* attempt att on, with lastErr the error of the pass before and sofar the
\* invocations and sleeps made.  The result tells the invocations, the
\* sleeps, the RetryResult returned (None when the call threw) and whether
\* the call threw.
RECURSIVE RetryLoopFrom(_, _, _, _, _, _, _)
RetryLoopFrom(fn, config, script, random, att, lastErr, sofar) ==
    IF att > config.maxAttempts
    THEN [sofar EXCEPT !.ret = Some(AfterLoop(config, lastErr[1]))]
    ELSE
      LET outcome == script[att]
          pass == IF fn = "withRetry"
                  THEN withRetryPass(config, att, outcome, random)
                  ELSE withGitHubRetryPass(config, att, outcome, random, ResetAt - 1)
          invoked == [sofar EXCEPT !.invocations = @ + 1]
      IN  IF pass.thrown # None THEN [invoked EXCEPT !.threw = TRUE]
          ELSE IF pass.ret # None THEN [invoked EXCEPT !.ret = pass.ret]
          ELSE RetryLoopFrom(fn, config, script, random,
                             NextAttempt(att, pass.wait[1]),
                             Some(Caught(outcome)),
                             [invoked EXCEPT !.waits = Append(@, pass.wait[1])])

RetryCall(fn, config, script, random) ==
    RetryLoopFrom(fn, config, script, random, 1, None,
                  [invocations |-> 0, waits |-> <<>>, ret |-> None, threw |-> FALSE])

\* The outcomes the two executors are compared on: a value, undefined, a
\* rejection with nothing, errors without response headers, and one error
\* with them.
ComparedOutcomes ==
    {Ok("data"), [ok |-> TRUE, val |-> None, err |-> None], RejectsWithNothing,
     Throw(HttpError("", 503, "other", None)),
     Throw(HttpError("", 404, "other", None)),
     Throw(HttpError("", 0, "timeout", None)),
     Throw(HttpError("ECONNRESET", 0, "other", None)),
     Throw(HttpError("", 403, "rate limit exceeded", Headers(0, -1)))}

ComparedConfigs ==
    {c \in RetryConfigs : c.baseDelay = 1000 /\ c.maxDelay = 1500
                            /\ c.backoffMultiplier = 2}

\* The effect of one pass on the call's state.
PassEffect(pass, outcome, now) ==
    /\ invocations' = invocations + 1
    /\ lastNow' = now
    /\ lastError' = IF outcome.ok /\ outcome.val # None THEN lastError
                    ELSE IF outcome.ok /\ retryFn = "withRetry" THEN lastError
                    ELSE Some(Caught(outcome))
    /\ allRetryable' = (allRetryable /\ ~outcome.ok /\ isRetryableError(Caught(outcome)))
    /\ retryThrown' = pass.thrown
    /\ IF pass.thrown # None
       THEN UNCHANGED <<attempt, waits, retryResult>>
       ELSE IF pass.ret # None
       THEN /\ retryResult' = pass.ret
            /\ UNCHANGED <<attempt, waits>>
       ELSE /\ waits' = Append(waits, pass.wait[1])
            /\ attempt' = NextAttempt(attempt, pass.wait[1])
            /\ retryResult' =
                 IF attempt' <= finalConfig.maxAttempts THEN None
                 ELSE Some(AfterLoop(finalConfig, lastError'[1]))

\* One pass of the loop of withRetry.
withRetryLoop ==
    /\ retryFn = "withRetry"
    /\ retryResult = None
    /\ retryThrown = None
    /\ attempt <= finalConfig.maxAttempts
    /\ \E outcome \in Outcomes, random \in RandomDraws, now \in Clock :
         PassEffect(withRetryPass(finalConfig, attempt, outcome, random), outcome, now)
    /\ UNCHANGED <<retryFn, finalConfig, fnVars, runVars>>

\* One pass of the loop of withGitHubRetry.
withGitHubRetryLoop ==
    /\ retryFn = "withGitHubRetry"
    /\ retryResult = None
    /\ retryThrown = None
    /\ attempt <= finalConfig.maxAttempts
    /\ \E outcome \in Outcomes, random \in RandomDraws, now \in Clock :
         PassEffect(withGitHubRetryPass(finalConfig, attempt, outcome, random, now),
                    outcome, now)
    /\ UNCHANGED <<retryFn, finalConfig, fnVars, runVars>>

RetryNext == withRetryLoop \/ withGitHubRetryLoop

SpecRetry == RetryInit /\ [][RetryNext]_vars

(***************************************************************************)
(* Specification of the pure functions: a call is drawn, then made.        *)
(***************************************************************************)
\* The dotted string of a triple.
TripleStr(M, m, p) ==
    NatToStr(M) \o <<".">> \o NatToStr(m) \o <<".">> \o NatToStr(p)

\* Base versions handed to generateNextTag: every triple within the bound,
\* and strings that are no triple.
BaseStrings ==
    {TripleStr(M, m, p) : M \in 0..MaxVer, m \in 0..MaxVer, p \in 0..MaxVer}
        \cup {<<>>, <<"1", ".", "0">>, <<"1", ".", "a", ".", "0">>,
              <<"1", ".", "-", "1", ".", "0">>}

FnInit ==
    /\ fnCall \in {Some([fn |-> "generateNextTag", lastTag |-> b, part |-> q]) :
                     b \in BaseStrings, q \in PartToIncrement}
    /\ fnRet = None
    /\ RetryIdle
    /\ RunIdle

CallGenerateNextTag ==
    /\ fnCall # None /\ fnRet = None
    /\ fnCall[1].fn = "generateNextTag"
    /\ fnRet' = Some(generateNextTag(fnCall[1].lastTag, fnCall[1].part))
    /\ UNCHANGED <<fnCall, retryVars, runVars>>

FnNext == CallGenerateNextTag

SpecFn == FnInit /\ [][FnNext]_vars

(***************************************************************************)
(* Specification of the functions of utils.ts that read tag lists and      *)
(* comments: a call is drawn, then made.                                   *)
(***************************************************************************)
\* Longest tag list handed to determineLastTag.
MaxList == 3

\* A name with a leading v.
WithV(s) == <<"v">> \o s

\* Versions of the tag names drawn: 1.10.0 is above 1.9.0 as numbers and
\* below it as strings, 01.0.0 denotes the numbers of 1.0.0.
UtilVersions ==
    {TripleStr(1, 0, 0), TripleStr(1, 1, 0), TripleStr(1, 9, 0),
     TripleStr(1, 10, 0), TripleStr(2, 0, 0), <<"0", "1", ".", "0", ".", "0">>}

\* Names that pass the validation of Tag.
ValidTagNames ==
    UtilVersions \cup {WithV(s) : s \in UtilVersions}
        \cup {WithV(WithV(TripleStr(1, 0, 0)))}

\* Names that do not; the empty name stands for an element without name.
InvalidTagNames == {<<"r", "c", "1">>, <<"1", ".", "0">>, <<>>}

\* The element of a tag list named name.
TagNamed(name) == [name |-> name, sha |-> "c0"]

\* The lists of at most n elements named from S.
ListsOf(S, n) ==
    UNION {[1..k -> {TagNamed(x) : x \in S}] : k \in 0..n}

\* The bodies handed to parseCommentBody: the identifier with a remainder,
\* and bodies that do not start with it.
Remainders ==
    {<<" ", "s", "k", "i", "p">>, <<" ", "S", "K", "I", "P">>,
     <<" ", "S", "k", "i", "p", " ">>, <<"s", "k", "i", "p">>,
     <<" ", "s", "k", "i", "p", " ", "i", "t">>,
     <<" ", "v", "1", ".", "2", ".", "3">>, <<" ", "1", ".", "2", ".", "3">>,
     <<" ", "v", "0", "1", ".", "2", ".", "1", "0">>,
     <<" ", "V", "1", ".", "2", ".", "3">>, <<" ", "v", "1", ".", "2">>,
     <<" ", "1", ".", "2", ".", "3", ".", "4">>,
     <<" ", "v", "v", "1", ".", "2", ".", "3">>,
     <<" ", "m", "a", "j", "o", "r">>, <<" ", "m", "i", "n", "o", "r">>,
     <<" ", "p", "a", "t", "c", "h">>, <<" ", "M", "A", "J", "O", "R">>,
     <<"\n", "P", "a", "t", "c", "h", "\n">>, <<" ", "m", "I", "n", "o", "r">>,
     <<" ", "b", "o", "g", "u", "s">>, <<" ", "m", "a", "j", "o", "r", "s">>,
     <<" ", "0">>, <<" ", "1">>, <<" ", "2">>, <<" ", "3">>,
     <<" ", "_", "_", "p", "r", "o", "t", "o", "_", "_">>,
     <<>>, <<" ">>}

UtilBodies ==
    {commentIdentifier \o rest : rest \in Remainders}
        \cup {<<>>, <<" ">>, <<"l", "g", "t", "m">>,
              <<" ">> \o commentIdentifier \o <<" ", "s", "k", "i", "p">>}

\* The names of the lists handed to findNextAvailableVersion, and a ladder
\* of n successive minor versions above 1.0.0.
SearchNames ==
    {WithV(TripleStr(1, 1, 0)), TripleStr(1, 2, 0), WithV(TripleStr(1, 2, 0)),
     WithV(TripleStr(1, 3, 0)), WithV(TripleStr(2, 0, 0)),
     WithV(TripleStr(1, 0, 1))}

Ladder(n) == [i \in 1..n |-> TagNamed(WithV(TripleStr(1, i, 0)))]

\* The numbers of passes the search is allowed: few, and the default.
SearchBudgets == (0..MaxVer) \cup {SearchMaxAttempts}

\* The characters the specification of validateTagName lists.
ForbiddenChars == {"~", "^", ":", "?", "*", "[", "\\", "]", "@", "{", "}"}

\* The names handed to validateTagName: each listed character and each
\* control character inside a name and alone, a name the pattern matches,
\* empty and white-space names, and names without any of them.
CheckedNames ==
    {<<"t", c, "g">> : c \in ForbiddenChars \cup ControlChars}
    \cup {<<c>> : c \in ForbiddenChars \cup ControlChars}
    \cup {<<"t", c>> \o InvalidCharsRest : c \in InvalidCharsClass}
    \cup {<<>>, <<" ">>, <<" ", " ", " ">>, <<" ", "\t">>,
          <<"v", "1", ".", "0", ".", "0">>, <<"r", "c", "-", "1", ".", "0">>,
          <<" ", "v", "1">>, <<"t", "a", "g">>}

\* The versions rendered and parsed back.
RenderedVersions ==
    {[major |-> a, minor |-> b, patch |-> c] :
       a \in 0..MaxVer, b \in {0, 9, 10}, c \in 0..MaxVer}

\* The strings handed to Version.fromString: triples with and without v,
\* with leading zeros and with numbers of two digits, the renderings of
\* versions, and strings that are no triple.
VersionStrings ==
    ValidTagNames \cup InvalidTagNames
      \cup {VersionToString(v) : v \in RenderedVersions}
      \cup {<<"0", "0", ".", "0", "7", ".", "1", "0", "0">>,
            <<"v", "0", ".", "0", ".", "0">>,
            <<"1", ".", "2", ".", "3", ".", "4">>,
            <<"V", "1", ".", "0", ".", "0">>,
            <<" ", "1", ".", "0", ".", "0">>,
            <<"1", ".", "0", ".", "0", "-", "r", "c">>,
            <<"1", ".", ".", "0">>, <<"v">>}

\* The bodies of the comments scanned: skip, two increments, two manual
\* versions, a numeral, an unknown word, and a comment without the
\* identifier.
ScanBodies ==
    {commentIdentifier \o <<" ", "s", "k", "i", "p">>,
     commentIdentifier \o <<" ", "m", "a", "j", "o", "r">>,
     commentIdentifier \o <<" ", "P", "a", "t", "c", "h">>,
     commentIdentifier \o <<" ", "v", "1", ".", "1", ".", "0">>,
     commentIdentifier \o <<" ", "2", ".", "0", ".", "0">>,
     commentIdentifier \o <<" ", "b", "o", "g", "u", "s">>,
     commentIdentifier \o <<" ", "0">>,
     <<"l", "g", "t", "m">>}

\* The errors isRetryableError is called on: every code, status and
\* message below.
ClassifiedErrors ==
    {HttpError(code, status, message, None) :
        code \in {"", "ECONNRESET", "ENOTFOUND", "ETIMEDOUT", "EACCES", "503", "404"},
        status \in {0, 404, 408, 422, 429, 500, 502, 503, 504},
        message \in {"other", "rate limit exceeded", "rate limit",
                     "API rate limit exceeded for user", "temporary",
                     "timeout", "Request Timeout", "network error",
                     "connection reset", "service unavailable", "not found"}}

\* new Date().getTime(): a reading of the clock, in seconds for the
\* milliseconds of the code.
Timestamps == {1700000000}

UtilCalls ==
    {[fn |-> "determineLastTag", tags |-> l] :
        l \in ListsOf(ValidTagNames \cup InvalidTagNames, MaxList)}
    \cup {[fn |-> "parseCommentBody", body |-> b] : b \in UtilBodies}
    \cup {[fn |-> "checkDuplicateTag", tags |-> l, tagName |-> n] :
            l \in ListsOf(ValidTagNames, MaxTags), n \in ValidTagNames}
    \cup {[fn |-> "findNextAvailableVersion",
           baseVersion |-> [major |-> 1, minor |-> m, patch |-> 0],
           incrementType |-> q, existingTags |-> l, maxAttempts |-> n] :
            m \in 0..MaxVer, q \in PartToIncrement \cup {"'Major'"},
            l \in ListsOf(SearchNames, MaxTags)
                    \cup {Ladder(SearchMaxAttempts - 1), Ladder(SearchMaxAttempts)},
            n \in SearchBudgets}
    \cup {[fn |-> "generateSafeTagName",
           baseVersion |-> [major |-> 1, minor |-> m, patch |-> 0],
           incrementType |-> q, existingTags |-> l, timestamp |-> t] :
            m \in 0..MaxVer, q \in PartToIncrement \cup {"'Major'"},
            l \in ListsOf(SearchNames, MaxTags)
                    \cup {Ladder(SearchMaxAttempts - 1), Ladder(SearchMaxAttempts)},
            t \in Timestamps}
    \cup {[fn |-> "new Tag", tagName |-> x] : x \in VersionStrings}
    \cup {[fn |-> "scanComments", comments |-> l] :
            l \in UNION {[1..k -> ScanBodies] : k \in 0..MaxList}}
    \cup {[fn |-> "Version.fromString", versionString |-> x] :
            x \in VersionStrings}
    \cup {[fn |-> f, tagName |-> n] :
            f \in {"validateTagName", "validateTagNameBoolean"},
            n \in CheckedNames}
    \cup {[fn |-> "isRetryableError", error |-> e] : e \in ClassifiedErrors}
    \cup {[fn |-> "withRetry, withGitHubRetry", config |-> c, script |-> sc,
            random |-> rnd] :
            c \in ComparedConfigs, sc \in [1..MaxRetryAttempts -> ComparedOutcomes],
            rnd \in RandomDraws}

UtilsInit ==
    /\ fnCall \in {Some(c) : c \in UtilCalls}
    /\ fnRet = None
    /\ RetryIdle
    /\ RunIdle

CallDetermineLastTag ==
    /\ fnCall # None /\ fnRet = None
    /\ fnCall[1].fn = "determineLastTag"
    /\ fnRet' = Some(determineLastTag(fnCall[1].tags))
    /\ UNCHANGED <<fnCall, retryVars, runVars>>

CallParseCommentBody ==
    /\ fnCall # None /\ fnRet = None
    /\ fnCall[1].fn = "parseCommentBody"
    /\ fnRet' = Some(parseCommentBody(fnCall[1].body))
    /\ UNCHANGED <<fnCall, retryVars, runVars>>

\* checkDuplicateTag returns a value, it never throws on a list of named
\* elements.
CallCheckDuplicateTag ==
    /\ fnCall # None /\ fnRet = None
    /\ fnCall[1].fn = "checkDuplicateTag"
    /\ fnRet' = Some(Ok(checkDuplicateTag(fnCall[1].tags, fnCall[1].tagName)))
    /\ UNCHANGED <<fnCall, retryVars, runVars>>

CallFindNextAvailableVersion ==
    /\ fnCall # None /\ fnRet = None
    /\ fnCall[1].fn = "findNextAvailableVersion"
    /\ fnRet' = Some(findNextAvailableVersionUpTo(
                       fnCall[1].baseVersion, fnCall[1].incrementType,
                       fnCall[1].existingTags, fnCall[1].maxAttempts))
    /\ UNCHANGED <<fnCall, retryVars, runVars>>

CallValidateTagName ==
    /\ fnCall # None /\ fnRet = None
    /\ fnCall[1].fn = "validateTagName"
    /\ fnRet' = Some(validateTagName(fnCall[1].tagName))
    /\ UNCHANGED <<fnCall, retryVars, runVars>>

CallValidateTagNameBoolean ==
    /\ fnCall # None /\ fnRet = None
    /\ fnCall[1].fn = "validateTagNameBoolean"
    /\ fnRet' = Some(validateTagNameBoolean(fnCall[1].tagName))
    /\ UNCHANGED <<fnCall, retryVars, runVars>>

CallVersionFromString ==
    /\ fnCall # None /\ fnRet = None
    /\ fnCall[1].fn = "Version.fromString"
    /\ fnRet' = Some(VersionFromString(fnCall[1].versionString))
    /\ UNCHANGED <<fnCall, retryVars, runVars>>

CallNewTag ==
    /\ fnCall # None /\ fnRet = None
    /\ fnCall[1].fn = "new Tag"
    /\ fnRet' = Some(NewTag(fnCall[1].tagName))
    /\ UNCHANGED <<fnCall, retryVars, runVars>>

\* The loop of run() over the comments fetched, from the defaults.
CallScanComments ==
    /\ fnCall # None /\ fnRet = None
    /\ fnCall[1].fn = "scanComments"
    /\ fnRet' = Some(Ok(ScanComments(fnCall[1].comments, DefaultDirective)))
    /\ UNCHANGED <<fnCall, retryVars, runVars>>

CallIsRetryableError ==
    /\ fnCall # None /\ fnRet = None
    /\ fnCall[1].fn = "isRetryableError"
    /\ fnRet' = Some(Ok(isRetryableError(fnCall[1].error)))
    /\ UNCHANGED <<fnCall, retryVars, runVars>>

\* generateSafeTagName with tagPrefix left to its default.
CallGenerateSafeTagName ==
    /\ fnCall # None /\ fnRet = None
    /\ fnCall[1].fn = "generateSafeTagName"
    /\ fnRet' = Some(generateSafeTagName(fnCall[1].baseVersion,
                                         fnCall[1].incrementType,
                                         fnCall[1].existingTags, <<"v">>,
                                         fnCall[1].timestamp))
    /\ UNCHANGED <<fnCall, retryVars, runVars>>

\* Both executors are called on the same operation.
CallBothRetries ==
    /\ fnCall # None /\ fnRet = None
    /\ fnCall[1].fn = "withRetry, withGitHubRetry"
    /\ fnRet' = Some(Ok([withRetry |->
                            RetryCall("withRetry", fnCall[1].config,
                                      fnCall[1].script, fnCall[1].random),
                         withGitHubRetry |->
                            RetryCall("withGitHubRetry", fnCall[1].config,
                                      fnCall[1].script, fnCall[1].random)]))
    /\ UNCHANGED <<fnCall, retryVars, runVars>>

UtilsNext ==
    \/ CallDetermineLastTag
    \/ CallParseCommentBody
    \/ CallCheckDuplicateTag
    \/ CallFindNextAvailableVersion
    \/ CallValidateTagName
    \/ CallValidateTagNameBoolean
    \/ CallVersionFromString
    \/ CallNewTag
    \/ CallScanComments
    \/ CallIsRetryableError
    \/ CallBothRetries
    \/ CallGenerateSafeTagName

SpecUtils == UtilsInit /\ [][UtilsNext]_vars


(***************************************************************************)
(* Claims about generateNextTag (specification SpecFn).                    *)
(***************************************************************************)
(* Specification of run(): the steps of a run, one per remote call         *)
(* awaited, each with the synchronous code that follows the call.          *)
(***************************************************************************)
\* The retry configuration of a call site: the overrides it passes.
CallConfig(maxAttempts, baseDelay) ==
    [DEFAULT_RETRY_CONFIG EXCEPT !.maxAttempts = maxAttempts,
                                 !.baseDelay = baseDelay]

CallStepNoBudget(config, att, outcome, random, now) ==
    LET pass == withGitHubRetryPass(config, att, outcome, random, now) IN
    IF pass.ret # None THEN [result |-> pass.ret, att |-> att]
    ELSE [result |-> None,
          att |-> IF att < config.maxAttempts
                  THEN NextAttempt(att, pass.wait[1]) ELSE att]

\* One pass of withGitHubRetry as a call site sees it: the RetryResult when
\* the call returns, None and the next pass number when it goes on.
CallStep(config, att, outcome, random, now) ==
    LET pass == withGitHubRetryPass(config, att, outcome, random, now) IN
    IF pass.ret # None THEN [result |-> pass.ret, att |-> att]
    ELSE
      LET n == NextAttempt(att, pass.wait[1]) IN
      IF n <= config.maxAttempts THEN [result |-> None, att |-> n]
      ELSE [result |-> Some(AfterLoop(config,
                              IF outcome.ok THEN TypeError ELSE outcome.err[1])),
            att |-> n]

\* The errors the remote calls of a run are made to fail with.
RunErrors ==
    {[name |-> "Error", code |-> "", status |-> 503, msg |-> "other", headers |-> None],
     [name |-> "Error", code |-> "", status |-> 0, msg |-> "timeout", headers |-> None],
     [name |-> "Error", code |-> "", status |-> 404, msg |-> "not found", headers |-> Headers(0, -1)]}

\* The error of createRef for a reference that exists.
ReferenceExists ==
    [name |-> "Error", code |-> "", status |-> 422, msg |-> "reference already exists",
     headers |-> None]

\* catch (error) { throw new Error(`...: ${error.message}`) }: the message
\* is kept, code, status and headers are not.
Rethrown(error) ==
    [name |-> "Error", code |-> "", status |-> 0, msg |-> error.msg, headers |-> None]

\* The ValidationError of status checks that have not passed.
ChecksNotPassed == NewValidationError("other")

\* catch (error) { throw new ValidationError(`...: ${error.message}`) } of
\* validateRequiredStatusChecks: the message is kept.
StatusCheckError(error) == NewValidationError(error.msg)

\* Math.random() sets how long a pass sleeps, which is no part of the state
\* of a run: the runs take the middle draw.  The clock is read in the catch
\* block only.
RandomRead(outcome) == {1}

ClockRead(outcome) == IF outcome.ok /\ outcome.val # None THEN {ResetAt - 1} ELSE Clock

\* setFailed after the step named at, with the error of the call if any.
FailedRun(me, at, error) ==
    [me EXCEPT !.pc = "done", !.result = "failed", !.failedAt = at,
               !.error = error]

validatePRMergeStatusClosedOnly(pr) == pr.state = "closed"

\* validatePRMergeStatus(pr) passes.
validatePRMergeStatus(pr) ==
    pr.state = "closed" /\ pr.merged /\ pr.merged_at /\ pr.merge_commit_sha

\* The pull requests pulls.get answers with; merged_at and merge_commit_sha
\* are TRUE when present.
PRDetails ==
    {[state |-> "closed", merged |-> TRUE, merged_at |-> TRUE, merge_commit_sha |-> TRUE],
     [state |-> "closed", merged |-> TRUE, merged_at |-> TRUE, merge_commit_sha |-> FALSE],
     [state |-> "closed", merged |-> FALSE, merged_at |-> FALSE, merge_commit_sha |-> FALSE],
     [state |-> "open", merged |-> FALSE, merged_at |-> FALSE, merge_commit_sha |-> FALSE]}

\* The run makes the remote call op and awaits it: pass 1 of its retry loop.
Call(me, op) ==
    [me EXCEPT !.pc = op, !.attempt = 1, !.issued = @ \cup {op}]

\* Token and context validation, up to the first remote call.
Start(r) ==
    /\ runs[r].pc = "start"
    /\ \E tokenOk \in BOOLEAN, contextOk \in BOOLEAN :
         runs' = [runs EXCEPT ![r] =
                    IF ~tokenOk THEN FailedRun(runs[r], "token", None)
                    ELSE IF ~contextOk THEN FailedRun(runs[r], "context", None)
                    ELSE Call(runs[r], "getBranchProtection")]
    /\ UNCHANGED <<prComments, remoteTags, fnVars, retryVars>>

\* What repos.getBranchProtection answers: the rules, or an error (not
\* found, unreachable, any other).
ProtectionAnswers == {Ok("rules")} \cup {Throw(e) : e \in RunErrors}

\* validateBranchProtection(octokit, repo, branch): its try block logs the
\* rules, its catch block logs a 404 as information and any other error as
\* a warning; it resolves to undefined whatever the remote answers.
validateBranchProtection(answer) == [ok |-> TRUE, val |-> None, err |-> None]

\* A branch protection call whose failed lookup fails the run.
BranchProtectionFatal(r) ==
    /\ runs[r].pc = "getBranchProtection"
    /\ \E answer \in ProtectionAnswers :
         runs' = [runs EXCEPT ![r] =
                    IF answer.ok
                    THEN Call([runs[r] EXCEPT !.protection = "found"], "pulls.get")
                    ELSE FailedRun([runs[r] EXCEPT !.protection = "failed"],
                                   "getBranchProtection", answer.err)]
    /\ UNCHANGED <<prComments, remoteTags, fnVars, retryVars>>

\* A pass of the branch protection call; protection records whether the
\* lookup found the rules or failed.  The run goes on whatever the call
\* returns: a RetryResult without success is logged as a warning.
BranchProtection(r) ==
    /\ runs[r].pc = "getBranchProtection"
    /\ \E answer \in ProtectionAnswers :
       LET outcome == validateBranchProtection(answer)
           seen == [runs[r] EXCEPT !.protection =
                                     IF answer.ok THEN "found" ELSE "failed"]
       IN
       \E random \in RandomRead(outcome), now \in ClockRead(outcome) :
         LET step == CallStep(CallConfig(2, 2000), runs[r].attempt, outcome,
                              random, now)
         IN  runs' = [runs EXCEPT ![r] =
                        IF step.result = None
                        THEN [seen EXCEPT !.attempt = step.att]
                        ELSE Call(seen, "pulls.get")]
    /\ UNCHANGED <<prComments, remoteTags, fnVars, retryVars>>

\* A pass of the pull request fetch, then validatePRMergeStatus.
FetchPR(r) ==
    /\ runs[r].pc = "pulls.get"
    /\ \E outcome \in {Ok(pr) : pr \in PRDetails} \cup {Throw(e) : e \in RunErrors} :
       \E random \in RandomRead(outcome), now \in ClockRead(outcome) :
         LET step == CallStep(CallConfig(3, 1000), runs[r].attempt, outcome,
                              random, now)
         IN  runs' = [runs EXCEPT ![r] =
                        IF step.result = None
                        THEN [runs[r] EXCEPT !.attempt = step.att]
                        ELSE IF ~step.result[1].success
                        THEN FailedRun(runs[r], "pulls.get", step.result[1].error)
                        ELSE IF ~validatePRMergeStatus(step.result[1].data[1])
                        THEN FailedRun([runs[r] EXCEPT
                                          !.prDetails = step.result[1].data],
                                       "validatePRMergeStatus", None)
                        ELSE Call([runs[r] EXCEPT
                                     !.prDetails = step.result[1].data],
                                  "getCombinedStatusForRef")]
    /\ UNCHANGED <<prComments, remoteTags, fnVars, retryVars>>

\* A pass of the status checks call: validateRequiredStatusChecks throws a
\* ValidationError of its own or one that wraps the error of the remote.
StatusChecks(r) ==
    /\ runs[r].pc = "getCombinedStatusForRef"
    /\ \E outcome \in {Ok("success"), Throw(ChecksNotPassed)}
                        \cup {Throw(StatusCheckError(e)) : e \in RunErrors} :
       \E random \in RandomRead(outcome), now \in ClockRead(outcome) :
         LET step == CallStep(CallConfig(3, 2000), runs[r].attempt, outcome,
                              random, now)
         IN  runs' = [runs EXCEPT ![r] =
                        IF step.result = None
                        THEN [runs[r] EXCEPT !.attempt = step.att]
                        ELSE IF ~step.result[1].success
                        THEN FailedRun(runs[r], "getCombinedStatusForRef",
                                       step.result[1].error)
                        ELSE Call([runs[r] EXCEPT
                                     !.statusResult = step.result[1].data],
                                  "listComments")]
    /\ UNCHANGED <<prComments, remoteTags, fnVars, retryVars>>

AfterCommentsNoSkip(me) == Call(me, "listTags")

\* The run after the comments: the outputs of the skip case, or on to the
\* tags.
AfterComments(me) ==
    IF me.shouldSkip
    THEN [me EXCEPT !.pc = "done", !.result = "skipped",
                    !.outputs = Some([tag |-> <<>>, previous_tag |-> <<>>,
                                      increment_type |-> "skipped"])]
    ELSE Call(me, "listTags")

\* The run with the directive the scan of the comments fetched leaves.
WithComments(me, comments, dir) ==
    [me EXCEPT !.commentsData = Some(comments),
               !.partToIncrement = dir.partToIncrement,
               !.shouldSkip = dir.shouldSkip,
               !.manualVersion = dir.manualVersion]

\* A pass of the comments fetch, then the scan and the skip test.  A fetch
\* that failed leaves the defaults.
FetchComments(r) ==
    /\ runs[r].pc = "listComments"
    /\ \E outcome \in {Ok(prComments[r])} \cup {Throw(e) : e \in RunErrors} :
       \E random \in RandomRead(outcome), now \in ClockRead(outcome) :
         LET step == CallStep(CallConfig(3, 1000), runs[r].attempt, outcome,
                              random, now)
         IN  runs' = [runs EXCEPT ![r] =
                        IF step.result = None
                        THEN [runs[r] EXCEPT !.attempt = step.att]
                        ELSE IF ~step.result[1].success
                        THEN AfterComments(runs[r])
                        ELSE AfterComments(
                               WithComments(runs[r], step.result[1].data[1],
                                 ScanComments(step.result[1].data[1],
                                              DefaultDirective)))]
    /\ UNCHANGED <<prComments, remoteTags, fnVars, retryVars>>

\* The directive a run holds.
DirectiveOf(me) ==
    [partToIncrement |-> me.partToIncrement, shouldSkip |-> me.shouldSkip,
     manualVersion |-> me.manualVersion]

\* The outputs set when a tag name is reported.
TagOutputs(me, res) ==
    Some([tag |-> res.tagName[1],
          previous_tag |-> TagToString(res.lastTag[1]),
          increment_type |-> IncrementTypeOutput(DirectiveOf(me))])

\* The comment bodies drawn: the commands, one that is none, the numeral of
\* an enum member, and a comment that does not qualify.
CommentBodies ==
    {commentIdentifier \o <<" ", "s", "k", "i", "p">>,
     commentIdentifier \o <<" ", "m", "a", "j", "o", "r">>,
     commentIdentifier \o <<" ", "P", "a", "t", "c", "h">>,
     commentIdentifier \o <<" ", "v", "1", ".", "1", ".", "0">>,
     commentIdentifier \o <<" ", "b", "o", "g", "u", "s">>,
     commentIdentifier \o <<" ", "0">>,
     <<"l", "g", "t", "m">>}

\* Most comments of a pull request.
MaxComments == 2

CommentLists == UNION {[1..n -> CommentBodies] : n \in 0..MaxComments}

\* The tags a repository is drawn from, in the order listTags gives them.
TagUniverse ==
    <<[name |-> <<"v", "1", ".", "0", ".", "0">>, sha |-> "c0"],
      [name |-> <<"1", ".", "1", ".", "0">>, sha |-> "c0"],
      [name |-> <<"v", "1", ".", "1", ".", "0">>, sha |-> "c0"],
      [name |-> <<"v", "1", ".", "1", ".", "0">>, sha |-> "c1"],
      [name |-> <<"v", "2", ".", "0", ".", "0">>, sha |-> "c0"],
      [name |-> <<"r", "c", "1">>, sha |-> "c0"]>>

RECURSIVE TagsAt(_)
TagsAt(S) ==
    IF S = {} THEN <<>>
    ELSE LET m == CHOOSE i \in S : \A j \in S : j <= i
         IN  Append(TagsAt(S \ {m}), TagUniverse[m])

TagLists ==
    {TagsAt(S) : S \in {T \in SUBSET (1..Len(TagUniverse)) :
                          /\ Cardinality(T) <= MaxTags
                          /\ \A i, j \in T :
                               i # j => TagUniverse[i].name # TagUniverse[j].name}}

\* The directives the comment lists drawn give, and the commits of the runs.
Directives == {ScanComments(list, DefaultDirective) : list \in CommentLists}

Commits == {ContextSha[r] : r \in Runs}

\* Resolve on the tag lists, directives and commits drawn, computed once.
ResolveTable ==
    {[tags |-> tags, dir |-> dir, sha |-> sha, res |-> Resolve(tags, dir, sha)] :
        tags \in TagLists, dir \in Directives, sha \in Commits}

\* Resolve(tags, dir, sha), read from the table where the table has it.
ResolveOf(tags, dir, sha) ==
    LET rows == {row \in ResolveTable :
                   row.tags = tags /\ row.dir = dir /\ row.sha = sha}
    IN  IF rows = {} THEN Resolve(tags, dir, sha)
        ELSE (CHOOSE row \in rows : TRUE).res

\* The remote serves listTags: the answer, the tags of the repository as
\* they are now or an error, travels to the run.
ListTags(r) ==
    /\ runs[r].pc = "listTags"
    /\ runs[r].answer = None
    /\ \E outcome \in {Ok(remoteTags)} \cup {Throw(e) : e \in RunErrors} :
         runs' = [runs EXCEPT ![r].answer = Some(outcome)]
    /\ UNCHANGED <<prComments, remoteTags, fnVars, retryVars>>

\* A run that goes from the resolution straight to createRef.
AfterResolutionRefFirst(me, tagsData, res) ==
    IF res.next = "failed"
    THEN FailedRun([me EXCEPT !.tagsData = Some(tagsData),
                              !.resolution = Some(res)], res.failedAt, None)
    ELSE Call([me EXCEPT !.tagsData = Some(tagsData),
                         !.resolution = Some(res)], "createRef")

\* The run after the resolution res of the list tagsData.
AfterResolution(me, tagsData, res) ==
    IF res.next = "failed"
    THEN FailedRun([me EXCEPT !.tagsData = Some(tagsData),
                              !.resolution = Some(res)], res.failedAt, None)
    ELSE IF res.next = "satisfied"
    THEN [me EXCEPT !.tagsData = Some(tagsData), !.resolution = Some(res),
                    !.pc = "done", !.result = "satisfied",
                    !.outputs = TagOutputs(me, res)]
    ELSE Call([me EXCEPT !.tagsData = Some(tagsData),
                         !.resolution = Some(res)], "createTag")

\* A pass of the tags fetch on the answer received, then everything up to
\* the call of createTag: the last tag, the new tag, the duplicate check,
\* the final safety check, all on the list this answer holds.
FetchTags(r) ==
    /\ runs[r].pc = "listTags"
    /\ runs[r].answer # None
    /\ \E random \in RandomRead(runs[r].answer[1]),
          now \in ClockRead(runs[r].answer[1]) :
       \E step \in {CallStep(CallConfig(3, 1000), runs[r].attempt,
                              runs[r].answer[1], random, now)} :
         LET me == [runs[r] EXCEPT !.answer = None] IN
         IF step.result = None
         THEN runs' = [runs EXCEPT ![r] = [me EXCEPT !.attempt = step.att]]
         ELSE IF ~step.result[1].success
         THEN runs' = [runs EXCEPT ![r] =
                         FailedRun(me, "listTags", step.result[1].error)]
         ELSE \E res \in {ResolveOf(step.result[1].data[1], DirectiveOf(me),
                                    ContextSha[r])} :
                runs' = [runs EXCEPT ![r] =
                           AfterResolution(me, step.result[1].data[1], res)]
    /\ UNCHANGED <<prComments, remoteTags, fnVars, retryVars>>

\* A pass of the createTag call: the remote stores a tag object, which is
\* no reference, or fails; createTag rethrows the error as a new Error.
CreateTag(r) ==
    /\ runs[r].pc = "createTag"
    /\ \E outcome \in {Ok([tag |-> runs[r].resolution[1].tagName[1],
                           object |-> ContextSha[r]])}
                        \cup {Throw(Rethrown(e)) : e \in RunErrors} :
       \E random \in RandomRead(outcome), now \in ClockRead(outcome) :
         LET step == CallStep(CallConfig(3, 2000), runs[r].attempt, outcome,
                              random, now)
         IN  runs' = [runs EXCEPT ![r] =
                        IF step.result = None
                        THEN [runs[r] EXCEPT !.attempt = step.att]
                        ELSE IF ~step.result[1].success
                        THEN FailedRun(runs[r], "createTag", step.result[1].error)
                        ELSE Call(runs[r], "createRef")]
    /\ UNCHANGED <<prComments, remoteTags, fnVars, retryVars>>

\* The names of the tags of a list.
Names(tags) == {tags[i].name : i \in 1..Len(tags)}

\* The answers of the remote to createRef for name: it refuses a reference
\* that exists.
CreateRefAnswers(name) ==
    IF name \in Names(remoteTags)
    THEN {Throw(Rethrown(ReferenceExists))}
    ELSE {Ok([ref |-> name])}

\* A pass of the createRef call.  The remote refuses, or adds the tag,
\* pointing at the commit of the run, or fails; createRef rethrows the
\* error as a new Error.
CreateRef(r) ==
    /\ runs[r].pc = "createRef"
    /\ \E outcome \in CreateRefAnswers(runs[r].resolution[1].tagName[1])
                        \cup {Throw(Rethrown(e)) : e \in RunErrors} :
       \E random \in RandomRead(outcome), now \in ClockRead(outcome) :
         LET step == CallStep(CallConfig(3, 2000), runs[r].attempt, outcome,
                              random, now)
         IN  /\ remoteTags' =
                  IF outcome.ok
                  THEN Append(remoteTags,
                              [name |-> runs[r].resolution[1].tagName[1],
                               sha |-> ContextSha[r]])
                  ELSE remoteTags
             /\ runs' = [runs EXCEPT ![r] =
                        IF step.result = None
                        THEN [runs[r] EXCEPT !.attempt = step.att]
                        ELSE IF ~step.result[1].success
                        THEN FailedRun(runs[r], "createRef", step.result[1].error)
                        ELSE [runs[r] EXCEPT
                                !.pc = "done", !.result = "created",
                                !.outputs = TagOutputs(runs[r],
                                                       runs[r].resolution[1])]]
    /\ UNCHANGED <<prComments, fnVars, retryVars>>

RunStep(r) ==
    \/ Start(r)
    \/ BranchProtection(r)
    \/ FetchPR(r)
    \/ StatusChecks(r)
    \/ FetchComments(r)
    \/ ListTags(r)
    \/ FetchTags(r)
    \/ CreateTag(r)
    \/ CreateRef(r)

\* One run on a repository and a pull request drawn.
RunInit ==
    /\ runs = [r \in Runs |-> IF r = 1 THEN StartingRun ELSE IdleRun]
    /\ prComments \in {[r \in Runs |-> IF r = 1 THEN cs ELSE <<>>] :
                         cs \in CommentLists}
    /\ remoteTags \in TagLists
    /\ FnIdle
    /\ RetryIdle

RunNext == \E r \in Runs : RunStep(r)

SpecRun == RunInit /\ [][RunNext]_vars

\* One run whose awaited calls and sleeps all come to an end: the remote
\* answers or the call fails, a timer fires, and the continuation of the
\* await is then run.
RunFairness ==
    \A r \in Runs :
        /\ WF_vars(Start(r))
        /\ WF_vars(BranchProtection(r))
        /\ WF_vars(FetchPR(r))
        /\ WF_vars(StatusChecks(r))
        /\ WF_vars(FetchComments(r))
        /\ WF_vars(ListTags(r))
        /\ WF_vars(FetchTags(r))
        /\ WF_vars(CreateTag(r))
        /\ WF_vars(CreateRef(r))

SpecRunFair == RunInit /\ [][RunNext]_vars /\ RunFairness

\* Two runs, of two pull requests merged one after the other, at once.
RaceComments ==
    {<<>>, <<commentIdentifier \o <<" ", "v", "1", ".", "1", ".", "0">>>>}

RaceInit ==
    /\ runs = [r \in Runs |-> StartingRun]
    /\ prComments \in [Runs -> RaceComments]
    /\ remoteTags \in {tags \in TagLists : Len(tags) <= 1}
    /\ FnIdle
    /\ RetryIdle

SpecRace == RaceInit /\ [][RunNext]_vars


(***************************************************************************)
\* The call made was generateNextTag(b, q) and it has returned.
ReturnedGenerateNextTag(b, q) ==
    /\ fnCall # None /\ fnRet # None
    /\ fnCall[1].fn = "generateNextTag"
    /\ fnCall[1].lastTag = b
    /\ fnCall[1].part = q

\* C1: for every base version (M, m, p) of non-negative integers,
\* generateNextTag returns (M+1, 0, 0) for Major, (M, m+1, 0) for Minor and
\* (M, m, p+1) for Patch.
C1_IncrementPolicy ==
    \A M \in 0..MaxVer, m \in 0..MaxVer, p \in 0..MaxVer :
        /\ ReturnedGenerateNextTag(TripleStr(M, m, p), "Major") =>
             /\ fnRet[1].ok
             /\ fnRet[1].val[1] = [major |-> M + 1, minor |-> 0, patch |-> 0]
        /\ ReturnedGenerateNextTag(TripleStr(M, m, p), "Minor") =>
             /\ fnRet[1].ok
             /\ fnRet[1].val[1] = [major |-> M, minor |-> m + 1, patch |-> 0]
        /\ ReturnedGenerateNextTag(TripleStr(M, m, p), "Patch") =>
             /\ fnRet[1].ok
             /\ fnRet[1].val[1] = [major |-> M, minor |-> m, patch |-> p + 1]

\* A Major increment of 1.2.1 has returned 2.0.0.
C1_Witness ==
    /\ ReturnedGenerateNextTag(TripleStr(1, 2, 1), "Major")
    /\ fnRet[1].ok
    /\ fnRet[1].val[1] = [major |-> 2, minor |-> 0, patch |-> 0]

(***************************************************************************)
(* Claims about the retry executor (specification SpecRetry).              *)
(***************************************************************************)
Returned == retryResult # None

\* C2: withRetry and withGitHubRetry invoke the operation at most
\* maxAttempts times; when every attempt fails with a retryable error the
\* result has success = false and attempts = maxAttempts.
C2_AtMostMaxAttempts ==
    /\ invocations <= finalConfig.maxAttempts
    /\ (Returned /\ allRetryable) =>
         /\ ~retryResult[1].success
         /\ retryResult[1].attempts = finalConfig.maxAttempts
         /\ invocations = finalConfig.maxAttempts

\* withGitHubRetry has spent a budget of at least two attempts on retryable
\* errors, one of them answered by a rate-limit wait.
C2_Witness ==
    /\ retryFn = "withGitHubRetry"
    /\ Returned /\ allRetryable
    /\ finalConfig.maxAttempts >= 2
    /\ invocations = finalConfig.maxAttempts
    /\ \E i \in 1..Len(waits) : waits[i].kind = "ratelimit"

\* The last invocation failed with an error that is not retryable.
LastFailedNotRetryable ==
    /\ lastError # None
    /\ retryThrown = None
    /\ ~(Returned /\ retryResult[1].success)
    /\ ~isRetryableError(lastError[1])

\* C3: for every error that is not retryable, a failed attempt makes
\* withRetry and withGitHubRetry return success = false at once: the call
\* has returned with that invocation as its last, whatever attempts remain.
C3_NotRetryableReturnsAtOnce ==
    LastFailedNotRetryable =>
        /\ Returned
        /\ ~retryResult[1].success
        /\ retryResult[1].attempts = invocations

(***************************************************************************)
(* Claims about the resolution of a run (specification SpecRun).           *)
(***************************************************************************)
\* Run r has resolved the tag list it fetched.
Resolved(r) == runs[r].tagsData # None /\ runs[r].resolution # None

\* Run r generated a candidate name, and the list it fetched holds a tag of
\* exactly that name that points, or does not point, at the run's commit.
CandidateExists(r, sameCommit) ==
    /\ Resolved(r)
    /\ runs[r].resolution[1].candidate # None
    /\ \E i \in 1..Len(runs[r].tagsData[1]) :
         /\ runs[r].tagsData[1][i].name = runs[r].resolution[1].candidate[1]
         /\ (runs[r].tagsData[1][i].sha = ContextSha[r]) = sameCommit

\* C4: when the candidate tag name equals the name of an existing tag that
\* points at the run's commit, the run ends successfully, has called
\* neither createTag nor createRef, and the tags of the repository are the
\* ones it fetched.
C4_SameCommitIsNoOp ==
    \A r \in Runs :
      CandidateExists(r, TRUE) =>
        /\ runs[r].pc = "done"
        /\ runs[r].result = "satisfied"
        /\ runs[r].issued \cap {"createTag", "createRef"} = {}
        /\ remoteTags = runs[r].tagsData[1]

\* The manual version 1.1.0 met the tag v1.1.0 of the run's own commit.
C4_Witness ==
    /\ CandidateExists(1, TRUE)
    /\ runs[1].manualVersion = Some(<<"1", ".", "1", ".", "0">>)
    /\ runs[1].result = "satisfied"
    /\ runs[1].outputs # None
    /\ runs[1].outputs[1].tag = <<"v", "1", ".", "1", ".", "0">>

\* C5: when the candidate tag name equals the name of an existing tag that
\* points at another commit, the run fails and has called neither createTag
\* nor createRef.
C5_OtherCommitFails ==
    \A r \in Runs :
      CandidateExists(r, FALSE) =>
        /\ runs[r].pc = "done"
        /\ runs[r].result = "failed"
        /\ runs[r].issued \cap {"createTag", "createRef"} = {}

\* The manual version 1.1.0 met the tag v1.1.0 of another commit.
C5_Witness ==
    /\ CandidateExists(1, FALSE)
    /\ runs[1].result = "failed"
    /\ runs[1].failedAt = "conflict"
    /\ runs[1].resolution[1].conflictType = "exact_match"

\* The version a name denotes in whatever form: the name less a leading v.
\* A version is present in a list when a tag of the list denotes it.
Present(tags, name) ==
    \E i \in 1..Len(tags) : Clean(tags[i].name) = Clean(name)

\* Run r met a version conflict: its candidate is the name of no tag of the
\* list it fetched, and the version is present in another form.
VersionConflict(r) ==
    /\ Resolved(r)
    /\ runs[r].resolution[1].candidate # None
    /\ \A i \in 1..Len(runs[r].tagsData[1]) :
         runs[r].tagsData[1][i].name # runs[r].resolution[1].candidate[1]
    /\ Present(runs[r].tagsData[1], runs[r].resolution[1].candidate[1])

\* The triple of numbers a tag name denotes.
TripleOf(name) ==
    LET s == Segments(name) IN [major |-> s[1], minor |-> s[2], patch |-> s[3]]

\* The first version after v, in steps of part, that is present in tags in
\* no form; the search gives up after left steps.
RECURSIVE ForwardSearch(_, _, _, _)
ForwardSearch(v, part, tags, left) ==
    IF left = 0 THEN None
    ELSE IF ~Present(tags, VersionToString(Increment(v, part).val[1]))
    THEN Some(VersionToString(Increment(v, part).val[1]))
    ELSE ForwardSearch(Increment(v, part).val[1], part, tags, left - 1)

\* The name of a tag of the list that no tag of the list is above.
Highest(tags) ==
    CHOOSE n \in Names(tags) : \A k \in Names(tags) : compareVersions(k, n) <= 0

\* Run r creates a tag after a version conflict, its part being a member.
CreatesAfterConflict(r) ==
    /\ VersionConflict(r)
    /\ runs[r].resolution[1].next = "create"
    /\ runs[r].partToIncrement \in PartToIncrement

\* C6 as stated: on a version conflict the tag the run creates is the first
\* free version of the forward search that starts from the conflicting
\* version.
C6_SearchFromConflictingVersion ==
    \A r \in Runs :
      CreatesAfterConflict(r) =>
        runs[r].resolution[1].tagName =
          ForwardSearch(TripleOf(runs[r].resolution[1].candidate[1]),
                        runs[r].partToIncrement, runs[r].tagsData[1],
                        SearchMaxAttempts)

\* C6, amended: on a version conflict the tag the run creates is the first
\* free version of the forward search that starts from the version of the
\* highest existing tag.
C6_SearchFromLastTag ==
    \A r \in Runs :
      CreatesAfterConflict(r) =>
        runs[r].resolution[1].tagName =
          ForwardSearch(TripleOf(Highest(runs[r].tagsData[1])),
                        runs[r].partToIncrement, runs[r].tagsData[1],
                        SearchMaxAttempts)

\* The manual version 1.1.0 met the tags 1.1.0 and v2.0.0, and v2.1.0 was
\* created.
C6_Witness ==
    /\ VersionConflict(1)
    /\ runs[1].resolution[1].candidate = Some(<<"v", "1", ".", "1", ".", "0">>)
    /\ Highest(runs[1].tagsData[1]) = <<"v", "2", ".", "0", ".", "0">>
    /\ runs[1].result = "created"
    /\ runs[1].outputs[1].tag = <<"v", "2", ".", "1", ".", "0">>
    /\ \E i \in 1..Len(remoteTags) :
         remoteTags[i].name = <<"v", "2", ".", "1", ".", "0">>

(***************************************************************************)
(* Claims about the comments of a run (specification SpecRun).             *)
(***************************************************************************)
\* The commands of the qualifying comments of a list that parse, in order.
RECURSIVE Commands(_)
Commands(list) ==
    IF list = <<>> THEN <<>>
    ELSE IF Head(list) # <<>> /\ StartsWith(Head(list), commentIdentifier)
            /\ parseCommentBody(Head(list)).ok
    THEN <<parseCommentBody(Head(list)).val[1]>> \o Commands(Tail(list))
    ELSE Commands(Tail(list))

\* The directive a run applies, as the command that states it.
Applied(me) ==
    IF me.shouldSkip THEN TagBotCommandResult("skip", None, None, TRUE)
    ELSE IF me.manualVersion # None
    THEN TagBotCommandResult("manual", None, me.manualVersion, FALSE)
    ELSE TagBotCommandResult("increment", Some(me.partToIncrement), None, FALSE)

\* The precedence of a command by its kind.
Rank(cmd) ==
    CASE cmd.command = "skip" -> 3
      [] cmd.command = "manual" -> 2
      [] cmd.command = "increment" -> 1

\* A command before the last one is of a kind of higher precedence.
EarlierPrevails(cmds) ==
    \E i \in 1..Len(cmds) : Rank(cmds[i]) > Rank(cmds[Len(cmds)])

\* The directive applied is that of the last of the commands cmds.
LastWins(cmds, applied) == cmds # <<>> => applied = cmds[Len(cmds)]

\* The directive applied is that of the last of the commands cmds, or of a
\* kind of higher precedence when a command before the last one is.
LastWinsUnlessEarlierPrevails(cmds, applied) ==
    cmds # <<>> =>
      IF EarlierPrevails(cmds)
      THEN Rank(applied) > Rank(cmds[Len(cmds)])
      ELSE applied = cmds[Len(cmds)]

ValidCommand(body) ==
    LET commandPart == Trim(Substring(body, Len(commentIdentifier))) IN
    \/ ToLowerCase(commandPart) \in {<<"s", "k", "i", "p">>,
                                     <<"m", "a", "j", "o", "r">>,
                                     <<"m", "i", "n", "o", "r">>,
                                     <<"p", "a", "t", "c", "h">>}
    \/ MatchesTriple(commandPart)
    \/ StartsWith(commandPart, <<"v">>) /\ MatchesTriple(Substring(commandPart, 1))

\* A list without its qualifying comments whose remainder is no valid
\* command.
RECURSIVE WithoutInvalid(_)
WithoutInvalid(list) ==
    IF list = <<>> THEN <<>>
    ELSE IF StartsWith(Head(list), commentIdentifier) /\ ~ValidCommand(Head(list))
    THEN WithoutInvalid(Tail(list))
    ELSE <<Head(list)>> \o WithoutInvalid(Tail(list))

\* C10: a qualifying comment whose remainder is not a valid command never
\* prevents tagging: the run skips or not, and resolves the tags it fetched,
\* as it does for the comment list without such comments.
C10_InvalidCommentIgnored ==
    \A r \in Runs :
      runs[r].commentsData # None =>
        /\ runs[r].shouldSkip =
             ScanComments(WithoutInvalid(runs[r].commentsData[1]),
                          DefaultDirective).shouldSkip
        /\ Resolved(r) =>
             runs[r].resolution[1] =
               Resolve(runs[r].tagsData[1],
                       ScanComments(WithoutInvalid(runs[r].commentsData[1]),
                                    DefaultDirective),
                       ContextSha[r])

(***************************************************************************)
(* Claims about two runs at once (specification SpecRace).                 *)
(***************************************************************************)
\* Run s went for the name run r created: it called createTag for it, and
\* no remote call of s failed but for the name being taken.
LostRaceTo(s, r) ==
    /\ r # s
    /\ runs[r].result = "created"
    /\ runs[s].pc = "done"
    /\ "createTag" \in runs[s].issued
    /\ runs[s].resolution[1].tagName = runs[r].resolution[1].tagName
    /\ runs[s].result # "created"
    /\ runs[s].error = Some(Rethrown(ReferenceExists))

\* C7: when two runs race to create the same tag name, at most one creates
\* it and the other ends with an exact_match conflict.
C7_RaceSurfacesAsExactMatch ==
    /\ \A r, s \in Runs :
         r # s /\ runs[r].result = "created" /\ runs[s].result = "created"
           => runs[r].resolution[1].tagName # runs[s].resolution[1].tagName
    /\ \A r, s \in Runs :
         LostRaceTo(s, r) =>
           /\ runs[s].failedAt = "conflict"
           /\ runs[s].resolution[1].conflictType = "exact_match"

\* C8: the final safety check is made against the tags of the repository
\* as they are when createTag is called: a run calls createTag for a name
\* only if the repository holds no tag of that name at that time.
C8_FinalCheckSeesCurrentTags ==
    [][\A r \in Runs :
         ("createTag" \notin runs[r].issued /\ "createTag" \in runs'[r].issued)
           => runs'[r].resolution[1].tagName[1] \notin Names(remoteTags)]_vars

(***************************************************************************)
(* Claims about the functions of utils.ts (specification SpecUtils).       *)
(***************************************************************************)
\* The call made was to f and it has returned.
ReturnedFrom(f) == fnCall # None /\ fnRet # None /\ fnCall[1].fn = f

\* The numbers (major, minor, patch) a valid tag name denotes.
RECURSIVE StripV(_)
StripV(s) == IF s # <<>> /\ Head(s) = "v" THEN StripV(Tail(s)) ELSE s

NumbersOf(name) ==
    LET parts == Split(StripV(name), ".")
    IN  <<ParseInt(parts[1]), ParseInt(parts[2]), ParseInt(parts[3])>>

\* Lexicographic order on (major, minor, patch).
LexLeq(a, b) ==
    \/ a[1] < b[1]
    \/ a[1] = b[1] /\ a[2] < b[2]
    \/ a[1] = b[1] /\ a[2] = b[2] /\ a[3] <= b[3]

AllValid(tags) == \A i \in 1..Len(tags) : tags[i].name \in ValidTagNames

\* C11: for every non-empty list of validly named tags, determineLastTag
\* returns a tag of the list whose version is greater than or equal to every
\* other tag's version in the numeric lexicographic order on
\* (major, minor, patch).
C11_LastTagIsHighest ==
    (/\ ReturnedFrom("determineLastTag")
     /\ Len(fnCall[1].tags) > 0
     /\ AllValid(fnCall[1].tags)) =>
        /\ fnRet[1].ok
        /\ \E i \in 1..Len(fnCall[1].tags) :
             fnCall[1].tags[i].name = fnRet[1].val[1].name
        /\ \A j \in 1..Len(fnCall[1].tags) :
             LexLeq(NumbersOf(fnCall[1].tags[j].name),
                    NumbersOf(fnRet[1].val[1].name))

\* Of v1.10.0, 1.9.0 and v1.1.0, in that order, v1.10.0 was returned.
C11_Witness ==
    /\ ReturnedFrom("determineLastTag")
    /\ fnCall[1].tags = <<TagNamed(WithV(TripleStr(1, 10, 0))),
                          TagNamed(TripleStr(1, 9, 0)),
                          TagNamed(WithV(TripleStr(1, 1, 0)))>>
    /\ fnRet[1].ok
    /\ fnRet[1].val[1].name = WithV(TripleStr(1, 10, 0))

\* C12: determineLastTag fails with a ValidationError and returns no tag
\* when the list is empty, when an element has no name and when an
\* element's name is no valid tag: a malformed element is never passed over.
C12_MalformedListFails ==
    (/\ ReturnedFrom("determineLastTag")
     /\ \/ Len(fnCall[1].tags) = 0
        \/ \E i \in 1..Len(fnCall[1].tags) :
             fnCall[1].tags[i].name \in InvalidTagNames) =>
        /\ ~fnRet[1].ok
        /\ fnRet[1].val = None
        /\ fnRet[1].err = Some(ValidationError)

\* A list of two valid tags around one malformed name has been refused.
C12_Witness ==
    /\ ReturnedFrom("determineLastTag")
    /\ fnCall[1].tags = <<TagNamed(WithV(TripleStr(1, 0, 0))),
                          TagNamed(<<"r", "c", "1">>),
                          TagNamed(WithV(TripleStr(2, 0, 0)))>>
    /\ ~fnRet[1].ok

\* The body starts with the identifier; what follows it, trimmed.
HasIdentifier(body) == StartsWith(body, commentIdentifier)

Remainder(body) == Trim(Substring(body, Len(commentIdentifier)))

SkipWord == <<"s", "k", "i", "p">>

\* The member an increment word names, in whatever letter case.
MemberOf(word) ==
    CASE ToLowerCase(word) = <<"m", "a", "j", "o", "r">> -> Some("Major")
      [] ToLowerCase(word) = <<"m", "i", "n", "o", "r">> -> Some("Minor")
      [] ToLowerCase(word) = <<"p", "a", "t", "c", "h">> -> Some("Patch")
      [] OTHER -> None

\* The dotted triple of a remainder that is one, with or without a v.
TripleIn(word) ==
    IF MatchesTriple(word) THEN Some(word)
    ELSE IF word # <<>> /\ Head(word) = "v" /\ MatchesTriple(Tail(word))
    THEN Some(Tail(word))
    ELSE None

\* C13: parseCommentBody maps the identifier followed by skip, in any letter
\* case, to Skip; followed by a dotted numeric triple, with or without a
\* leading v, to ManualVersion with the triple less the v; followed by
\* major, minor or patch to the Increment directive of that part.
C13_CommandsParsed ==
    (ReturnedFrom("parseCommentBody") /\ HasIdentifier(fnCall[1].body)) =>
        LET word == Remainder(fnCall[1].body) IN
        /\ ToLowerCase(word) = SkipWord =>
             /\ fnRet[1].ok
             /\ fnRet[1].val[1].command = "skip"
             /\ fnRet[1].val[1].shouldSkip
        /\ TripleIn(word) # None =>
             /\ fnRet[1].ok
             /\ fnRet[1].val[1].command = "manual"
             /\ fnRet[1].val[1].manualVersion = TripleIn(word)
             /\ ~fnRet[1].val[1].shouldSkip
        /\ MemberOf(word) # None =>
             /\ fnRet[1].ok
             /\ fnRet[1].val[1].command = "increment"
             /\ fnRet[1].val[1].incrementType = MemberOf(word)
             /\ ~fnRet[1].val[1].shouldSkip

\* "/tag-bot v01.2.10" was parsed to the manual version 01.2.10.
C13_Witness ==
    /\ ReturnedFrom("parseCommentBody")
    /\ fnCall[1].body =
         commentIdentifier \o <<" ", "v", "0", "1", ".", "2", ".", "1", "0">>
    /\ fnRet[1].ok
    /\ fnRet[1].val[1].manualVersion =
         Some(<<"0", "1", ".", "2", ".", "1", "0">>)

\* C14: parseCommentBody fails with a ValidationError for every body that
\* starts with the identifier and whose trimmed remainder is neither skip,
\* nor a dotted numeric triple (with or without v), nor one of major, minor,
\* patch.
C14_OtherRemaindersFail ==
    (/\ ReturnedFrom("parseCommentBody")
     /\ HasIdentifier(fnCall[1].body)
     /\ ToLowerCase(Remainder(fnCall[1].body)) # SkipWord
     /\ TripleIn(Remainder(fnCall[1].body)) = None
     /\ MemberOf(Remainder(fnCall[1].body)) = None) =>
        /\ ~fnRet[1].ok
        /\ fnRet[1].err = Some(ValidationError)

\* The conflict type the names alone give: the candidate's name is a name
\* of the list, else its numbers are those of a tag of another name.
ConflictOf(tags, tagName) ==
    IF \E i \in 1..Len(tags) : tags[i].name = tagName THEN "exact_match"
    ELSE IF \E i \in 1..Len(tags) :
               NumbersOf(tags[i].name) = NumbersOf(tagName)
    THEN "version_conflict"
    ELSE "none"

\* C15: checkDuplicateTag returns exact_match exactly when an existing tag
\* has the candidate's name, otherwise version_conflict exactly when an
\* existing tag has the candidate's numeric version in another string form,
\* otherwise none; exists is true exactly when the type is not none.
C15_ConflictClassified ==
    ReturnedFrom("checkDuplicateTag") =>
        /\ fnRet[1].val[1].conflictType =
             ConflictOf(fnCall[1].tags, fnCall[1].tagName)
        /\ fnRet[1].val[1].exists = (fnRet[1].val[1].conflictType # "none")

\* C16: findNextAvailableVersion tests at most maxAttempts (10 by default)
\* successive candidates, returns the first that conflicts with no existing
\* tag and fails with a ValidationError when all of them conflict.
C16_BoundedSearch ==
    (/\ ReturnedFrom("findNextAvailableVersion")
     /\ fnCall[1].incrementType \in PartToIncrement) =>
        LET first == ForwardSearch(fnCall[1].baseVersion,
                                   fnCall[1].incrementType,
                                   fnCall[1].existingTags,
                                   fnCall[1].maxAttempts)
        IN  IF first = None
            THEN ~fnRet[1].ok /\ fnRet[1].err = Some(ValidationError)
            ELSE fnRet[1].ok /\ VersionToString(fnRet[1].val[1]) = first[1]

\* With the ten minor versions after 1.0.0 taken and the default budget,
\* the search from 1.0.0 has failed.
C16_Witness ==
    /\ ReturnedFrom("findNextAvailableVersion")
    /\ fnCall[1].baseVersion = [major |-> 1, minor |-> 0, patch |-> 0]
    /\ fnCall[1].incrementType = "Minor"
    /\ fnCall[1].existingTags = Ladder(SearchMaxAttempts)
    /\ fnCall[1].maxAttempts = SearchMaxAttempts
    /\ ~fnRet[1].ok

(***************************************************************************)
(* Claims about the waits and the results of the retry executor            *)
(* (specification SpecRetry).                                              *)
(***************************************************************************)
\* Every sleep of the call so far was a backoff delay: the sleep after
\* attempt n is then waits[n].
OnlyBackoff == \A i \in 1..Len(waits) : waits[i].kind = "backoff"

\* C17: for every RetryConfig with backoffMultiplier >= 1, with or without
\* jitter, the waits between the consecutive attempts of one call are
\* non-decreasing and each is at most maxDelay; without jitter the wait
\* before attempt n+1 is min(baseDelay * backoffMultiplier^(n-1), maxDelay).
C17_WaitsGrowUpToMaxDelay ==
    (finalConfig.backoffMultiplier >= 1 /\ OnlyBackoff) =>
        \A n \in 1..Len(waits) :
            /\ waits[n].ms <= finalConfig.maxDelay
            /\ n > 1 => waits[n - 1].ms <= waits[n].ms
            /\ ~finalConfig.jitter =>
                 waits[n].ms =
                   Min(finalConfig.baseDelay
                         * Pow(finalConfig.backoffMultiplier, n - 1),
                       finalConfig.maxDelay)

\* The last invocation of the operation failed.
LastFailed == lastError # None /\ ~(Returned /\ retryResult[1].success)

\* The wait the headers of an error indicate at clock now, None when they
\* indicate none: the time to the reset when the accounting headers are
\* there and show no remaining requests, retry-after on a 429.
IndicatedWait(error, now) ==
    IF error.headers = None THEN None
    ELSE IF error.headers[1].limit > 0 /\ error.headers[1].remaining <= 0
    THEN Some(Max(0, error.headers[1].reset - now) * 1000)
    ELSE IF error.status = 429 /\ error.headers[1].retryAfter # -1
    THEN Some(error.headers[1].retryAfter * 1000)
    ELSE None

\* C18: when the headers of a failed attempt show no remaining requests, or
\* the error is an HTTP 429 with a retry-after hint, withGitHubRetry waits
\* the duration the headers indicate, in place of the backoff delay, before
\* the next attempt.  Stated for the failed attempts that are not the last
\* of the budget and for indicated durations above zero.
C18_HeaderWaitReplacesBackoff ==
    (/\ retryFn = "withGitHubRetry"
     /\ LastFailed
     /\ retryThrown = None
     /\ invocations < finalConfig.maxAttempts
     /\ IndicatedWait(lastError[1], lastNow) # None
     /\ IndicatedWait(lastError[1], lastNow)[1] > 0) =>
        /\ Len(waits) = invocations
        /\ waits[Len(waits)] =
             [kind |-> "ratelimit", ms |-> IndicatedWait(lastError[1], lastNow)[1]]

\* C19: withRetry and withGitHubRetry never throw: every call returns a
\* RetryResult with data populated and error absent when success is true,
\* error populated and data absent when success is false.
C19_AlwaysARetryResult ==
    /\ retryThrown = None
    /\ Returned =>
         IF retryResult[1].success
         THEN retryResult[1].data # None /\ retryResult[1].error = None
         ELSE retryResult[1].error # None /\ retryResult[1].data = None

\* C20: an operation that fails with a ValidationError is never retried,
\* whatever the message of the error: the failure is surfaced after that
\* attempt.
C20_ValidationErrorNotRetried ==
    (/\ LastFailed
     /\ retryThrown = None
     /\ lastError[1].name = "ValidationError") =>
        /\ Returned
        /\ ~retryResult[1].success
        /\ retryResult[1].attempts = invocations

(***************************************************************************)
(* Claims about the tag a run creates (specification SpecRun).             *)
(***************************************************************************)
\* The name vx.y.z of the manual version x.y.z, by its numbers.
ManualName(manualVersion) ==
    LET parts == Split(manualVersion, ".")
    IN  <<"v">> \o NatToStr(ParseInt(parts[1])) \o <<".">>
            \o NatToStr(ParseInt(parts[2])) \o <<".">>
            \o NatToStr(ParseInt(parts[3]))

\* Run r applies a manual version and its resolution is to create a tag.
CreatesWithManual(r) ==
    /\ Resolved(r)
    /\ runs[r].manualVersion # None
    /\ runs[r].resolution[1].next = "create"

\* C21 as stated: when the directive is a manual version x.y.z, any tag the
\* run creates is named vx.y.z, whatever the existing tags and the part.
C21_ManualNameCreated ==
    \A r \in Runs :
      CreatesWithManual(r) =>
        runs[r].resolution[1].tagName = Some(ManualName(runs[r].manualVersion[1]))

\* C21, amended: when the directive is a manual version x.y.z the candidate
\* is vx.y.z, and the tag the run creates is vx.y.z unless the fetched list
\* holds the version in another string form; then the tag created is
\* another one, present in the list in no form.
C21_ManualNameUnlessVersionConflict ==
    \A r \in Runs :
      CreatesWithManual(r) =>
        /\ runs[r].resolution[1].candidate =
             Some(ManualName(runs[r].manualVersion[1]))
        /\ IF VersionConflict(r)
           THEN /\ runs[r].resolution[1].tagName # runs[r].resolution[1].candidate
                /\ ~Present(runs[r].tagsData[1], runs[r].resolution[1].tagName[1])
           ELSE runs[r].resolution[1].tagName = runs[r].resolution[1].candidate

\* A major comment and the manual version 1.1.0 were fetched, the
\* repository had tags, and v1.1.0 was created.
C21_Witness ==
    /\ CreatesWithManual(1)
    /\ runs[1].manualVersion = Some(<<"1", ".", "1", ".", "0">>)
    /\ runs[1].partToIncrement = "Major"
    /\ Len(runs[1].tagsData[1]) > 0
    /\ runs[1].result = "created"
    /\ runs[1].outputs[1].tag = <<"v", "1", ".", "1", ".", "0">>

\* Run r fetched the comments and none of them starts with the identifier.
NoTagBotComment(r) ==
    /\ runs[r].commentsData # None
    /\ \A i \in 1..Len(runs[r].commentsData[1]) :
         ~StartsWith(runs[r].commentsData[1][i], commentIdentifier)

\* The numbers of the highest tag of a list, (0, 0, 0) for the empty list.
HighestNumbers(tags) ==
    IF tags = <<>> THEN <<0, 0, 0>>
    ELSE CHOOSE n \in {NumbersOf(tags[i].name) : i \in 1..Len(tags)} :
           \A j \in 1..Len(tags) : LexLeq(NumbersOf(tags[j].name), n)

\* The name of the version a Minor increment of the numbers n gives.
MinorAfter(n) ==
    <<"v">> \o NatToStr(n[1]) \o <<".">> \o NatToStr(n[2] + 1) \o <<".", "0">>

\* C22: with no tag-bot comment on the pull request, the run creates the
\* tag a Minor increment of the highest existing tag gives, from the base
\* v0.0.0 when the repository has no tags.
C22_DefaultIsMinorOfHighest ==
    \A r \in Runs :
      (Resolved(r) /\ NoTagBotComment(r) /\ AllValid(runs[r].tagsData[1])) =>
        /\ runs[r].resolution[1].next = "create"
        /\ runs[r].resolution[1].tagName =
             Some(MinorAfter(HighestNumbers(runs[r].tagsData[1])))
        /\ runs[r].result = "created" =>
             /\ runs[r].outputs[1].tag =
                  MinorAfter(HighestNumbers(runs[r].tagsData[1]))
             /\ \E i \in 1..Len(remoteTags) :
                  /\ remoteTags[i].name =
                       MinorAfter(HighestNumbers(runs[r].tagsData[1]))
                  /\ remoteTags[i].sha = ContextSha[r]

\* The one tag was v1.0.0, the one comment no tag-bot comment, and v1.1.0
\* was created.
C22_Witness ==
    /\ Resolved(1) /\ NoTagBotComment(1)
    /\ Len(runs[1].commentsData[1]) = 1
    /\ Names(runs[1].tagsData[1]) = {<<"v", "1", ".", "0", ".", "0">>}
    /\ runs[1].result = "created"
    /\ runs[1].outputs[1].tag = <<"v", "1", ".", "1", ".", "0">>

\* C23: when the directive is Skip the run calls neither listTags nor
\* createTag nor createRef, ends, and reports the increment mode skipped
\* with an empty tag; the tags of the repository are the ones it started
\* with.
C23_SkipCallsNothing ==
    \A r \in Runs :
      runs[r].shouldSkip =>
        /\ runs[r].issued \cap {"listTags", "createTag", "createRef"} = {}
        /\ runs[r].pc = "done"
        /\ runs[r].result = "skipped"
        /\ runs[r].tagsData = None
        /\ runs[r].outputs # None
        /\ runs[r].outputs[1].increment_type = "skipped"
        /\ runs[r].outputs[1].tag = <<>>

\* Two comments, the first a skip and the second an increment, and the run
\* skipped.
C23_Witness ==
    /\ runs[1].shouldSkip
    /\ runs[1].commentsData # None
    /\ Len(Commands(runs[1].commentsData[1])) = 2
    /\ Commands(runs[1].commentsData[1])[1].command = "skip"
    /\ Commands(runs[1].commentsData[1])[2].command = "increment"
    /\ runs[1].result = "skipped"
    /\ "listComments" \in runs[1].issued

\* The name holds one of the listed characters or a control character, or
\* is empty or white space only.
NameToReject(name) ==
    \/ \E i \in 1..Len(name) : name[i] \in ForbiddenChars \cup ControlChars
    \/ \A i \in 1..Len(name) : IsSpace(name[i])

\* C24: validateTagName rejects with a ValidationError every name that
\* contains one of the characters ~ ^ : ? * [ \ ] @ { } or a control
\* character, and every empty or white-space-only name.
C24_ForbiddenNamesRejected ==
    (ReturnedFrom("validateTagName") /\ NameToReject(fnCall[1].tagName)) =>
        /\ ~fnRet[1].ok
        /\ fnRet[1].err = Some(ValidationError)

\* The same of the validateTagName of validation.ts.
ForbiddenNamesRejectedBoolean ==
    (ReturnedFrom("validateTagNameBoolean") /\ NameToReject(fnCall[1].tagName)) =>
        /\ ~fnRet[1].ok
        /\ fnRet[1].err = Some(ValidationError)

\* What the two functions do reject of the names to reject.
RejectedByPattern ==
    (ReturnedFrom("validateTagName") /\ NameToReject(fnCall[1].tagName)) =>
        fnRet[1].ok = (/\ Trim(fnCall[1].tagName) # <<>>
                       /\ ~InvalidCharsTest(fnCall[1].tagName)
                       /\ \A i \in 1..Len(fnCall[1].tagName) :
                            fnCall[1].tagName[i] \notin ControlChars)

RejectedByClass ==
    (ReturnedFrom("validateTagNameBoolean") /\ NameToReject(fnCall[1].tagName)) =>
        fnRet[1].ok = (/\ Trim(fnCall[1].tagName) # <<>>
                       /\ \A i \in 1..Len(fnCall[1].tagName) :
                            fnCall[1].tagName[i] \notin InvalidCharsClass)

\* A dotted triple of runs of digits, with or without a leading v.
ValidTriple(x) ==
    \/ MatchesTriple(x)
    \/ x # <<>> /\ Head(x) = "v" /\ MatchesTriple(Tail(x))

\* A run of digits without its leading zeros.
RECURSIVE StripZeros(_)
StripZeros(run) ==
    IF Len(run) > 1 /\ Head(run) = "0" THEN StripZeros(Tail(run)) ELSE run

\* The canonical form of a valid triple: a v, and the three runs without
\* leading zeros.
Canonical(x) ==
    LET parts == Split(IF Head(x) = "v" THEN Tail(x) ELSE x, ".")
    IN  <<"v">> \o StripZeros(parts[1]) \o <<".">> \o StripZeros(parts[2])
            \o <<".">> \o StripZeros(parts[3])

\* C25: for every valid dotted triple s, with or without a leading v,
\* Version.fromString(s).toString() is the canonical form
\* v<major>.<minor>.<patch> of s, and Version.fromString(v.toString()) is v
\* for every version v.
C25_RenderParseRoundTrip ==
    ReturnedFrom("Version.fromString") =>
      /\ ValidTriple(fnCall[1].versionString) =>
           /\ fnRet[1].ok
           /\ VersionToString(fnRet[1].val[1]) = Canonical(fnCall[1].versionString)
      /\ \A v \in RenderedVersions :
           fnCall[1].versionString = VersionToString(v) => fnRet[1] = Ok(v)

\* v01.0.0 was parsed to the version (1, 0, 0), which renders v1.0.0 and is
\* parsed back from its rendering.
C25_Witness ==
    /\ ReturnedFrom("Version.fromString")
    /\ fnCall[1].versionString = <<"v", "0", "1", ".", "0", ".", "0">>
    /\ fnRet[1] = Ok([major |-> 1, minor |-> 0, patch |-> 0])
    /\ VersionToString(fnRet[1].val[1]) = <<"v", "1", ".", "0", ".", "0">>
    /\ VersionFromString(VersionToString(fnRet[1].val[1])) = fnRet[1]

\* A name without one leading v.
LessOneV(name) == IF name # <<>> /\ Head(name) = "v" THEN Tail(name) ELSE name

\* C26: new Tag(name) keeps name unchanged and sets version to name without
\* one leading v; construction fails with a ValidationError unless that
\* version is exactly three dot-separated runs of digits.
C26_TagVersionIsTriple ==
    ReturnedFrom("new Tag") =>
      IF MatchesTriple(LessOneV(fnCall[1].tagName))
      THEN fnRet[1] = Ok([name |-> fnCall[1].tagName,
                          version |-> LessOneV(fnCall[1].tagName)])
      ELSE ~fnRet[1].ok /\ fnRet[1].err = Some(ValidationError)

\* What the constructor requires of the version: a triple after one more
\* leading v is taken off.
TagVersionIsTripleOrVTriple ==
    ReturnedFrom("new Tag") =>
      IF MatchesTriple(LessOneV(LessOneV(fnCall[1].tagName)))
      THEN fnRet[1] = Ok([name |-> fnCall[1].tagName,
                          version |-> LessOneV(fnCall[1].tagName)])
      ELSE ~fnRet[1].ok /\ fnRet[1].err = Some(ValidationError)

\* The two names are equal, exactly or after a leading v is removed from
\* either.
SameButForV(a, b) ==
    \/ a = b
    \/ LessOneV(a) = b
    \/ a = LessOneV(b)
    \/ LessOneV(a) = LessOneV(b)

\* C27: in every run, createTag is never called with a name that equals,
\* exactly or after removing a leading v, the name of a tag in the tag list
\* that run fetched.
C27_CreateTagNameIsNew ==
    \A r \in Runs :
      "createTag" \in runs[r].issued =>
        /\ Resolved(r)
        /\ runs[r].resolution[1].tagName # None
        /\ \A i \in 1..Len(runs[r].tagsData[1]) :
             ~SameButForV(runs[r].tagsData[1][i].name,
                          runs[r].resolution[1].tagName[1])

\* createTag was called after a version conflict, with another name than
\* the candidate, on a list of two tags.
C27_Witness ==
    /\ "createTag" \in runs[1].issued
    /\ VersionConflict(1)
    /\ Len(runs[1].tagsData[1]) = 2
    /\ runs[1].resolution[1].tagName # runs[1].resolution[1].candidate
    /\ runs[1].result = "created"

\* Run r resolved its list without a manual version and generated a
\* candidate.
GeneratedCandidate(r) ==
    /\ Resolved(r)
    /\ runs[r].manualVersion = None
    /\ runs[r].resolution[1].candidate # None

\* The numbers a are strictly below the numbers b.
LexLess(a, b) == LexLeq(a, b) /\ a # b

\* C28: when no manual version is given, the candidate generated from the
\* highest tag of the fetched list is strictly greater than every version
\* in that list, so checkDuplicateTag on it returns none and neither
\* conflict branch (exact_match, version_conflict) is reached.
C28_GeneratedCandidateIsAbove ==
    \A r \in Runs :
      GeneratedCandidate(r) =>
        /\ \A i \in 1..Len(runs[r].tagsData[1]) :
             LexLess(NumbersOf(runs[r].tagsData[1][i].name),
                     NumbersOf(runs[r].resolution[1].candidate[1]))
        /\ runs[r].resolution[1].conflictType = "none"
        /\ runs[r].resolution[1].next = "create"
        /\ runs[r].resolution[1].tagName = runs[r].resolution[1].candidate

\* A patch increment was asked for, the list held two tags, and the tag
\* above both was created.
C28_Witness ==
    /\ GeneratedCandidate(1)
    /\ runs[1].partToIncrement = "Patch"
    /\ Len(runs[1].tagsData[1]) = 2
    /\ runs[1].tagsData[1][1].name # runs[1].tagsData[1][2].name
    /\ runs[1].resolution[1].conflictType = "none"
    /\ runs[1].result = "created"

\* The commands of kind among cmds, in order.
OfKind(cmds, kind) == SelectSeq(cmds, LAMBDA c : c.command = kind)

\* The directive by precedence of kind: skip if any command is skip, else
\* the last manual version if any, else the last increment part, Minor when
\* there is none.
ByPrecedence(cmds) ==
    IF OfKind(cmds, "skip") # <<>>
    THEN TagBotCommandResult("skip", None, None, TRUE)
    ELSE IF OfKind(cmds, "manual") # <<>>
    THEN OfKind(cmds, "manual")[Len(OfKind(cmds, "manual"))]
    ELSE IF OfKind(cmds, "increment") # <<>>
    THEN OfKind(cmds, "increment")[Len(OfKind(cmds, "increment"))]
    ELSE TagBotCommandResult("increment", Some("Minor"), None, FALSE)

\* C29: the directive the run applies follows precedence by kind and not
\* comment order: if any qualifying comment is skip the run skips;
\* otherwise if any gives a manual version the last such version is used;
\* otherwise the last increment part is used, Minor when there is none.
C29_PrecedenceByKind ==
    ReturnedFrom("scanComments") =>
      Applied(fnRet[1].val[1]) = ByPrecedence(Commands(fnCall[1].comments))

\* Manual 1.1.0, then manual 2.0.0, then an increment: 2.0.0 is applied.
C29_Witness ==
    /\ ReturnedFrom("scanComments")
    /\ Len(Commands(fnCall[1].comments)) = 3
    /\ Len(OfKind(Commands(fnCall[1].comments), "manual")) = 2
    /\ Commands(fnCall[1].comments)[3].command = "increment"
    /\ Applied(fnRet[1].val[1]).manualVersion = Some(<<"2", ".", "0", ".", "0">>)

\* The remote calls of a run that C30 names, and the passes each is allowed.
RemoteCalls ==
    {"pulls.get", "getCombinedStatusForRef", "listComments", "listTags",
     "createTag", "createRef"}

\* The run me holds what the call op returns on success.
Delivered(me, op) ==
    CASE op = "pulls.get" ->
           \/ "getCombinedStatusForRef" \in me.issued
           \/ me.failedAt = "validatePRMergeStatus"
      [] op = "getCombinedStatusForRef" -> "listComments" \in me.issued
      [] op = "listComments" -> me.commentsData # None
      [] op = "listTags" -> me.tagsData # None
      [] op = "createTag" -> "createRef" \in me.issued
      [] op = "createRef" -> me.result = "created"

\* The run me made the call op, the call is over, and it failed.
GaveUp(me, op) == op \in me.issued /\ me.pc # op /\ ~Delivered(me, op)

\* Run r is at the last pass the call site of op allows: each of the six
\* call sites passes maxAttempts 3.
LastPass(r, op) == runs[r].pc = op /\ runs[r].attempt = 3

\* C30: whenever one of the run's remote calls (get pull request, combined
\* status, list comments, list tags, create tag, create ref) still fails
\* when its retry budget is spent, the run ends in failure and creates no
\* tag.
C30_SpentBudgetFailsRun ==
    [][\A r \in Runs : \A op \in RemoteCalls :
         (LastPass(r, op) /\ GaveUp(runs'[r], op)) =>
           /\ runs'[r].pc = "done"
           /\ runs'[r].result = "failed"
           /\ remoteTags' = remoteTags]_vars

\* The same of the calls other than listComments, for a failure on any
\* pass.
FailedCallFailsRunButComments ==
    \A r \in Runs : \A op \in RemoteCalls \ {"listComments"} :
      GaveUp(runs[r], op) =>
        /\ runs[r].pc = "done"
        /\ runs[r].result = "failed"
        /\ runs[r].failedAt = op
        /\ remoteTags \in TagLists

\* A run whose listComments call failed has created a tag.
CreatedAfterCommentsGaveUp ==
    /\ GaveUp(runs[1], "listComments")
    /\ runs[1].result = "created"
    /\ remoteTags \notin TagLists

(***************************************************************************)
(* Claims about the remote calls of a run (specification SpecRun).         *)
(***************************************************************************)
\* The errors of the remote that the wrapper of createTag and createRef
\* rethrows as the error the run failed with.
RemoteErrorsOf(r) ==
    {e \in RunErrors : runs[r].error = Some(Rethrown(e))}

\* Run r failed at the call op because the remote answered with a retryable
\* HTTP status.
FailedOnRetryableStatus(r, op) ==
    /\ runs[r].result = "failed"
    /\ runs[r].failedAt = op
    /\ RemoteErrorsOf(r) # {}
    /\ \A e \in RemoteErrorsOf(r) : e.status \in RetryableStatusCodes

\* C31: a createTag or createRef call that fails with a retryable HTTP
\* status (408, 429, 500, 502, 503 or 504) is attempted again by the run, up
\* to 3 attempts in total, before the run fails.
C31_MutationsRetriedOnStatus ==
    \A r \in Runs : \A op \in {"createTag", "createRef"} :
      FailedOnRetryableStatus(r, op) => runs[r].attempt = 3

\* The same of the calls whose operation is the call of the remote itself.
FetchesRetriedOnStatus ==
    \A r \in Runs : \A op \in {"pulls.get", "listTags"} :
      (/\ runs[r].result = "failed" /\ runs[r].failedAt = op
       /\ runs[r].error # None
       /\ runs[r].error[1].status \in RetryableStatusCodes) =>
         runs[r].attempt = 3

\* C32: createTag is called only after the pull request was found closed
\* and merged with a merge commit SHA and the status-check validation of
\* the run's commit succeeded.
C32_CreateTagAfterGates ==
    \A r \in Runs :
      "createTag" \in runs[r].issued =>
        /\ runs[r].prDetails # None
        /\ runs[r].prDetails[1].state = "closed"
        /\ runs[r].prDetails[1].merged
        /\ runs[r].prDetails[1].merge_commit_sha
        /\ runs[r].statusResult = Some("success")
        /\ ~GaveUp(runs[r], "pulls.get")
        /\ ~GaveUp(runs[r], "getCombinedStatusForRef")

\* The pull request was merged, the status checks passed, and the run went
\* on to createTag and created the tag.
C32_Witness ==
    /\ "createTag" \in runs[1].issued
    /\ runs[1].prDetails # None
    /\ runs[1].prDetails[1].merged
    /\ runs[1].statusResult = Some("success")
    /\ runs[1].result = "created"

\* The remote calls of run() in the order of its text.
CallOrder ==
    <<"getBranchProtection", "pulls.get", "getCombinedStatusForRef",
      "listComments", "listTags", "createTag", "createRef">>

\* The calls of run r that are in flight: issued and not over.
InFlight(r) == {op \in runs[r].issued : runs[r].pc = op}

\* The calls run r has issued are the first ones of the order, and all but
\* the last of them are over.
IssuedInOrder(r) ==
    \E k \in 0..Len(CallOrder) :
      /\ runs[r].issued = {CallOrder[i] : i \in 1..k}
      /\ \A i \in 1..(k - 1) : runs[r].pc # CallOrder[i]
      /\ runs[r].pc \in {"idle", "start", "done"} \cup {CallOrder[i] : i \in {k} \ {0}}

\* C33: the remote calls of one run are strictly sequential: at most one
\* is in flight at any time, listComments completes before listTags is
\* issued, the conflict check precedes createTag, and createRef is issued
\* only after createTag succeeded.
C33_CallsAreSequential ==
    \A r \in Runs :
      /\ Cardinality(InFlight(r)) <= 1
      /\ IssuedInOrder(r)
      /\ "listTags" \in runs[r].issued =>
           /\ "listComments" \in runs[r].issued
           /\ runs[r].pc # "listComments"
      /\ "createTag" \in runs[r].issued =>
           /\ Resolved(r)
           /\ runs[r].resolution[1].next = "create"
           /\ runs[r].resolution[1].tagName # None
           /\ ~Present(runs[r].tagsData[1], runs[r].resolution[1].tagName[1])
      /\ "createRef" \in runs[r].issued =>
           /\ "createTag" \in runs[r].issued
           /\ runs[r].pc # "createTag"
           /\ ~GaveUp(runs[r], "createTag")

\* The run issued its seven calls one after the other and created the tag.
C33_Witness ==
    /\ runs[1].issued = {CallOrder[i] : i \in 1..Len(CallOrder)}
    /\ InFlight(1) = {}
    /\ runs[1].result = "created"

\* The number of sleeps made after the attempt numbered n: each pass of the
\* loop makes one invocation and at most one sleep, so the sleep after
\* attempt n is waits[n].
WaitsAfterAttempt(n) == IF Len(waits) >= n THEN 1 ELSE 0

\* C34: once the attempt numbered maxAttempts has failed, withRetry and
\* withGitHubRetry return without any further wait, neither a backoff delay
\* nor a rate-limit wait.
C34_NoWaitAfterLastAttempt ==
    WaitsAfterAttempt(finalConfig.maxAttempts) = 0

\* withRetry makes no wait after the attempt numbered maxAttempts.
WithRetryNoWaitAfterLastAttempt ==
    retryFn = "withRetry" => WaitsAfterAttempt(finalConfig.maxAttempts) = 0

\* The only wait withGitHubRetry makes after the attempt numbered
\* maxAttempts is a rate-limit wait, and the call then returns failure from
\* below the loop with attempts = maxAttempts.
LastAttemptWaitIsRateLimit ==
    WaitsAfterAttempt(finalConfig.maxAttempts) = 1 =>
        /\ retryFn = "withGitHubRetry"
        /\ waits[finalConfig.maxAttempts].kind = "ratelimit"
        /\ Returned
        /\ retryResult[1] = AfterLoop(finalConfig, lastError[1])

\* C35: in every RetryResult, attempts equals the number of times the
\* operation was invoked and lies between 1 and maxAttempts; when success is
\* true it is the index of the first successful invocation (every earlier
\* invocation failed and was followed by a wait) and no invocation follows
\* it.
C35_AttemptsCountsInvocations ==
    Returned =>
        /\ retryResult[1].attempts = invocations
        /\ retryResult[1].attempts \in 1..finalConfig.maxAttempts
        /\ retryResult[1].success => Len(waits) = retryResult[1].attempts - 1
        /\ ~ENABLED RetryNext

\* A call that succeeded on its third invocation, after two failures.
C35_Witness ==
    /\ Returned
    /\ retryResult[1].success
    /\ retryResult[1].attempts = 3
    /\ invocations = 3
    /\ Len(waits) = 2

\* A call that returned failure from below the loop.
ReturnedBelowLoop ==
    /\ Returned
    /\ ~retryResult[1].success
    /\ Len(waits) = finalConfig.maxAttempts
    /\ retryResult[1].attempts = invocations

\* isRetryableError was called on error and returned.
Classified(error) ==
    /\ fnCall # None
    /\ fnCall[1].fn = "isRetryableError"
    /\ fnCall[1].error = error
    /\ fnRet # None

\* The message holds one of the phrases.
HoldsOneOf(phrases, message) == \E phrase \in phrases : PatternTest(phrase, message)

\* C36 as stated: isRetryableError returns true exactly when the error
\* carries a network-transient code (ECONNRESET, ENOTFOUND, ETIMEDOUT), or
\* an HTTP status in {408, 429, 500, 502, 503, 504}, or a message matching
\* one of the patterns rate limit, timeout, connection reset, service
\* unavailable; it returns false for every other error.
C36_RetryableExactlyAsListed ==
    \A e \in ClassifiedErrors :
        Classified(e) =>
            fnRet[1] =
              Ok(\/ e.code \in {"ECONNRESET", "ENOTFOUND", "ETIMEDOUT"}
                 \/ e.status \in {408, 429, 500, 502, 503, 504}
                 \/ HoldsOneOf({"rate limit", "timeout", "connection reset",
                                "service unavailable"}, e.msg))

\* C36 amended: isRetryableError returns true exactly when the code of the
\* error is ECONNRESET, ENOTFOUND or ETIMEDOUT, or its status, or its code
\* when it has no status, is one of the numbers 408, 429, 500, 502, 503,
\* 504, or its message holds one of the six phrases rate limit exceeded,
\* temporary, timeout, network error, connection reset, service
\* unavailable; it returns false for every other error.
C36_RetryableExactlySixPatterns ==
    \A e \in ClassifiedErrors :
        Classified(e) =>
            fnRet[1] =
              Ok(\/ e.code \in {"ECONNRESET", "ENOTFOUND", "ETIMEDOUT"}
                 \/ e.status \in {408, 429, 500, 502, 503, 504}
                 \/ e.status = 0 /\ e.code = "503"
                 \/ HoldsOneOf({"rate limit exceeded", "temporary", "timeout",
                                "network error", "connection reset",
                                "service unavailable"}, e.msg))

\* An error with no code and no status whose message is 'temporary' was
\* classified retryable.
C36_Witness ==
    /\ Classified(HttpError("", 0, "temporary", None))
    /\ fnRet[1] = Ok(TRUE)

\* A message that holds 'rate limit' without 'exceeded' is not retryable.
RateLimitAloneNotRetryable ==
    /\ Classified(HttpError("", 0, "rate limit", None))
    /\ fnRet[1] = Ok(FALSE)

\* Both executors were called on one operation and are over.
Compared == fnCall # None /\ fnCall[1].fn = "withRetry, withGitHubRetry" /\ fnRet # None

\* No outcome of the script is an error that carries response headers.
NoErrorCarriesHeaders(script) ==
    \A n \in DOMAIN script :
        ~script[n].ok /\ script[n].err # None => script[n].err[1].headers = None

\* The two calls made the same invocations and sleeps and returned the same
\* success flag and attempts count.
SameCourse(both) ==
    /\ both.withRetry.invocations = both.withGitHubRetry.invocations
    /\ both.withRetry.waits = both.withGitHubRetry.waits
    /\ both.withRetry.ret # None
    /\ both.withGitHubRetry.ret # None
    /\ both.withRetry.ret[1].success = both.withGitHubRetry.ret[1].success
    /\ both.withRetry.ret[1].attempts = both.withGitHubRetry.ret[1].attempts

\* C37: for every sequence of operation outcomes in which no error carries
\* response headers, withGitHubRetry and withRetry make the same number of
\* invocations, apply the same waits and return the same success flag and
\* attempts count.
C37_SameWithoutHeaders ==
    Compared /\ NoErrorCarriesHeaders(fnCall[1].script) => SameCourse(fnRet[1].val[1])

\* The outcomes of the invocations made are values and error objects.
\* The invocations made are those up to the first that ended the call of
\* withRetry.
InvokedAreObjects(script, both) ==
    \A n \in 1..both.withRetry.invocations :
        /\ script[n] # RejectsWithNothing
        /\ script[n].ok => script[n].val # None

\* On operations that resolve to a value or reject with an error object
\* without headers the two executors take the same course.
SameOnValuesAndErrorObjects ==
    (/\ Compared
     /\ NoErrorCarriesHeaders(fnCall[1].script)
     /\ InvokedAreObjects(fnCall[1].script, fnRet[1].val[1])) =>
        SameCourse(fnRet[1].val[1])

\* Two retried failures and a success, the same in both executors.
SameCourseThreeAttempts ==
    /\ Compared
    /\ NoErrorCarriesHeaders(fnCall[1].script)
    /\ SameCourse(fnRet[1].val[1])
    /\ fnRet[1].val[1].withRetry.invocations = 3
    /\ fnRet[1].val[1].withRetry.ret[1].success

\* C38: a failure of the branch-protection lookup, whether not-found,
\* unreachable or any other error, never stops the run: the run continues
\* with the pull-request fetch and may still create the tag.
C38_ProtectionFailureContinues ==
    \A r \in Runs :
        runs[r].protection = "failed" =>
            /\ "pulls.get" \in runs[r].issued
            /\ runs[r].failedAt # "getBranchProtection"
            /\ runs[r].pc # "getBranchProtection"

\* A run whose branch-protection lookup failed created the tag.
C38_Witness ==
    /\ runs[1].protection = "failed"
    /\ runs[1].result = "created"
    /\ "createRef" \in runs[1].issued

\* generateSafeTagName was called with an increment type of the enumeration
\* and is over.
SafeNameGenerated ==
    /\ fnCall # None
    /\ fnCall[1].fn = "generateSafeTagName"
    /\ fnCall[1].incrementType \in PartToIncrement
    /\ fnRet # None

\* The name is a v followed by three dot-separated runs of digits.
IsVTriple(tagName) ==
    /\ tagName # <<>>
    /\ tagName[1] = "v"
    /\ MatchesTriple(Substring(tagName, 1))

\* C39: generateSafeTagName with the default prefix returns a name of the
\* form v<major>.<minor>.<patch> that new Tag accepts and that conflicts
\* with no existing tag.
C39_SafeNameIsVTriple ==
    SafeNameGenerated =>
        /\ fnRet[1].ok
        /\ IsVTriple(fnRet[1].val[1])
        /\ NewTag(fnRet[1].val[1]).ok
        /\ ~checkDuplicateTag(fnCall[1].existingTags, fnRet[1].val[1]).exists

\* The forward search of the call found a version.
SafeVersionFound ==
    findNextAvailableVersion(fnCall[1].baseVersion, fnCall[1].incrementType,
                             fnCall[1].existingTags).ok

\* What generateSafeTagName returns when the search finds a version: the
\* prefix v before the rendering of the version, which starts with a v of
\* its own; new Tag accepts the name, with a version that keeps one v.
SafeNameHasTwoPrefixes ==
    SafeNameGenerated /\ SafeVersionFound =>
        /\ fnRet[1].ok
        /\ fnRet[1].val[1][1] = "v"
        /\ IsVTriple(Substring(fnRet[1].val[1], 1))
        /\ NewTag(fnRet[1].val[1]).ok
        /\ NewTag(fnRet[1].val[1]).val[1].version = Substring(fnRet[1].val[1], 1)

\* What it returns when the search finds none: a name with a timestamp
\* suffix, which new Tag rejects.
FallbackNameRejected ==
    SafeNameGenerated /\ ~SafeVersionFound =>
        /\ fnRet[1].ok
        /\ ~NewTag(fnRet[1].val[1]).ok

\* A call whose search found no version.
FallbackTaken == SafeNameGenerated /\ ~SafeVersionFound

\* The outcomes of a run: completed (tag created, already satisfied,
\* skipped) or failed.
RunOutcomes == {"created", "satisfied", "skipped", "failed"}

\* The run is over, with one of the outcomes.
Ended(r) == runs[r].pc = "done" /\ runs[r].result \in RunOutcomes

\* A run has an outcome when it is over and only then.
OutcomeWhenOver ==
    \A r \in Runs : runs[r].pc = "done" <=> runs[r].result # "running"

\* A run that has an outcome makes no further step.
OutcomeIsFinal ==
    \A r \in Runs : runs[r].result # "running" => runs'[r] = runs[r]

\* C40: every run terminates: after finitely many remote calls and waits it
\* ends with exactly one outcome, either completed (tag created, already
\* satisfied, or skipped) or failed.
C40_RunTerminates ==
    /\ <>[]Ended(1)
    /\ []OutcomeWhenOver
    /\ [][OutcomeIsFinal]_vars

\* A run that ended failed at the tags fetch, its three attempts spent.
C40_Witness ==
    /\ Ended(1)
    /\ runs[1].result = "failed"
    /\ runs[1].failedAt = "listTags"
    /\ runs[1].attempt = 3

==========================================================================
